---- MODULE Spec2Model ----
(***************************************************************************)
(* A state-machine model of the Ladybug interpreter (src/src/ladybug.mts)  *)
(* and its call stack (src/src/callstack.mts).                             *)
(*                                                                         *)
(* Strings are sequences of one-character strings, so that the string      *)
(* operations of the code (split, slice, join, concatenation, Number(),    *)
(* String()) are computed and not assumed.  A program is given to execute  *)
(* as the parse tree the parser hands to executeNode.                      *)
(*                                                                         *)
(* The recursive evaluator is unfolded into steps: `mode' says whether     *)
(* executeNode is being entered on `ctrl' ("eval") or has just returned    *)
(* `val' ("ret"); `kont' is the stack of handlers waiting for a child      *)
(* executeNode to return, i.e. the JavaScript call stack.                  *)
(***************************************************************************)
EXTENDS Integers, Sequences, FiniteSets, TLC

VARIABLES
    frames,         \* frames[i]: CallStack.frames of evaluator instance i
    returnedValue,  \* returnedValue[i]: Ladybug.returnedValue of instance i
    handles,        \* handles[i]: Ladybug.handles of instance i (name -> callback)
    self,           \* the instance whose execute call is (or was last) running
    mode,           \* "idle" | "eval" | "ret"
    ctrl,           \* the node executeNode is entered on (mode = "eval")
    val,            \* the value executeNode returned (mode = "ret")
    kont,           \* the handlers waiting for a child, innermost last
    outcome,        \* how the last execute call ended: "none" | "ok" | an error
    errNode,        \* the node whose handler threw (outcome is an error)
    script,         \* the name of the program of the current / last execute
    calls,          \* the handle invocations of the current / last execute
    execCount,      \* the number of execute calls made so far
    globalsAtEnd,   \* globalsAtEnd[i]: frame 0 of i when its last execute ended
    phase,          \* phase[i]: "setup" until the first execute on i, then "run";
                    \* "late" once a handle is added to i after an execute
    tokens,         \* the tokens last given to Parser.parse
    parsed,         \* what that call of Parser.parse came to
    lexer,          \* the Lexer: text, pos, tokens, and where read is
    objects,        \* the ReturnValue objects created, by identity
    stored,         \* the object each name of frame 0 is bound to
    given           \* the objects the last handle invocation was given

vars == << frames, returnedValue, handles, self, mode, ctrl, val, kont, outcome,
           errNode, script, calls, execCount, globalsAtEnd, phase, tokens, parsed,
           lexer, objects, stored, given >>

-----------------------------------------------------------------------------
(* Bounds of the model *)

MaxExec == 2

Instances == {1, 2}

-----------------------------------------------------------------------------
(* Strings *)

\* String.prototype.split(sep) for a one-character separator
RECURSIVE Split(_, _)
Split(s, sep) ==
    IF \A k \in 1..Len(s) : s[k] # sep
    THEN << s >>
    ELSE LET k == CHOOSE j \in 1..Len(s) :
                      s[j] = sep /\ \A m \in 1..(j - 1) : s[m] # sep
         IN  << SubSeq(s, 1, k - 1) >> \o Split(SubSeq(s, k + 1, Len(s)), sep)

\* String.prototype.slice(0, -1)
SliceDropLast(s) == IF Len(s) = 0 THEN s ELSE SubSeq(s, 1, Len(s) - 1)

\* Array.prototype.join(sep)
RECURSIVE Join(_, _)
Join(parts, sep) ==
    IF Len(parts) = 0 THEN << >>
    ELSE IF Len(parts) = 1 THEN parts[1]
    ELSE parts[1] \o << sep >> \o Join(Tail(parts), sep)

-----------------------------------------------------------------------------
(* JavaScript numbers.  The model covers the integers and the three        *)
(* non-finite values; a division with a fractional quotient and a literal  *)
(* with a decimal point are outside it (no program of the model makes one).*)

Fin(n) == << "fin", n >>
NaN == << "nan", 0 >>
PosInf == << "inf", 1 >>
NegInf == << "inf", 0 - 1 >>

IsFinite(x) == x[1] = "fin"

Digits == << "0", "1", "2", "3", "4", "5", "6", "7", "8", "9" >>

DigitVal(c) == (CHOOSE d \in 1..10 : Digits[d] = c) - 1

RECURSIVE DigitsVal(_)
DigitsVal(s) ==
    IF Len(s) = 0 THEN 0
    ELSE 10 * DigitsVal(SubSeq(s, 1, Len(s) - 1)) + DigitVal(s[Len(s)])

IsDigits(s) == Len(s) > 0 /\ \A k \in 1..Len(s) : \E d \in 1..10 : Digits[d] = s[k]

InfinityText == << "I", "n", "f", "i", "n", "i", "t", "y" >>
NaNText == << "N", "a", "N" >>

\* Number(text)
Number(s) ==
    IF s = InfinityText THEN PosInf
    ELSE IF s = << "-" >> \o InfinityText THEN NegInf
    ELSE IF Len(s) = 0 THEN Fin(0)
    ELSE IF IsDigits(s) THEN Fin(DigitsVal(s))
    ELSE IF s[1] = "-" /\ IsDigits(Tail(s)) THEN Fin(0 - DigitsVal(Tail(s)))
    ELSE NaN

RECURSIVE NatText(_)
NatText(n) ==
    IF n < 10 THEN << Digits[n + 1] >>
    ELSE NatText(n \div 10) \o << Digits[(n % 10) + 1] >>

\* String(number)
String(x) ==
    IF x = NaN THEN NaNText
    ELSE IF x = PosInf THEN InfinityText
    ELSE IF x = NegInf THEN << "-" >> \o InfinityText
    ELSE IF x[2] < 0 THEN << "-" >> \o NatText(0 - x[2])
    ELSE NatText(x[2])

\* the sign of a number that is not NaN
Sign(x) == IF x[2] < 0 THEN 0 - 1 ELSE IF x[2] > 0 THEN 1 ELSE 0

Abs(n) == IF n < 0 THEN 0 - n ELSE n

SignedInf(s) == IF s < 0 THEN NegInf ELSE PosInf

NumNeg(x) == IF x = NaN THEN NaN ELSE << x[1], 0 - x[2] >>

NumAdd(x, y) ==
    IF x = NaN \/ y = NaN THEN NaN
    ELSE IF ~IsFinite(x) /\ ~IsFinite(y) THEN (IF x = y THEN x ELSE NaN)
    ELSE IF ~IsFinite(x) THEN x
    ELSE IF ~IsFinite(y) THEN y
    ELSE Fin(x[2] + y[2])

NumSub(x, y) == NumAdd(x, NumNeg(y))

NumMul(x, y) ==
    IF x = NaN \/ y = NaN THEN NaN
    ELSE IF ~IsFinite(x) \/ ~IsFinite(y)
         THEN (IF Sign(x) = 0 \/ Sign(y) = 0 THEN NaN
               ELSE SignedInf(Sign(x) * Sign(y)))
    ELSE Fin(x[2] * y[2])

NumDiv(x, y) ==
    IF x = NaN \/ y = NaN THEN NaN
    ELSE IF ~IsFinite(x) /\ ~IsFinite(y) THEN NaN
    ELSE IF ~IsFinite(x) THEN SignedInf(Sign(x) * (IF Sign(y) < 0 THEN 0 - 1 ELSE 1))
    ELSE IF ~IsFinite(y) THEN Fin(0)
    ELSE IF y[2] = 0 THEN (IF x[2] = 0 THEN NaN ELSE SignedInf(Sign(x)))
    ELSE CASE Abs(x[2]) % Abs(y[2]) = 0 ->
              Fin(Sign(x) * Sign(y) * (Abs(x[2]) \div Abs(y[2])))

NumMod(x, y) ==
    IF x = NaN \/ y = NaN THEN NaN
    ELSE IF ~IsFinite(x) THEN NaN
    ELSE IF ~IsFinite(y) THEN x
    ELSE IF y[2] = 0 THEN NaN
    ELSE Fin(Sign(x) * (Abs(x[2]) % Abs(y[2])))

NumLt(x, y) ==
    IF x = NaN \/ y = NaN THEN FALSE
    ELSE IF x = y THEN FALSE
    ELSE IF x = NegInf \/ y = PosInf THEN TRUE
    ELSE IF x = PosInf \/ y = NegInf THEN FALSE
    ELSE x[2] < y[2]

NumEq(x, y) == x # NaN /\ y # NaN /\ x = y

-----------------------------------------------------------------------------
(* Values, parse nodes, dictionaries, the call stack *)

\* new ReturnValue(type, content)
ReturnValue(type, content) == [type |-> type, content |-> content]

\* new ReturnValue(): type VOID, content ""
Void == ReturnValue("VOID", << >>)

\* new ParseNode(type, content, children)
ParseNode(type, content, children) ==
    [type |-> type, content |-> content, children |-> children]

\* x instanceof ParseNode
IsParseNode(x) == "children" \in DOMAIN x

\* x instanceof ReturnValue
IsReturnValue(x) == ~IsParseNode(x)

\* the value of a field that holds undefined
Undefined == [undefined |-> TRUE]

\* new Dict()
EmptyDict == [k \in {} |-> Void]

DictHas(map, key) == key \in DOMAIN map

DictSet(map, key, value) ==
    [k \in DOMAIN map \cup {key} |-> IF k = key THEN value ELSE map[k]]

\* new CallStack(): one frame
CallStackNew == << EmptyDict >>

PushFrame(fs) == Append(fs, EmptyDict)

PopFrame(fs) == IF Len(fs) = 0 THEN fs ELSE SubSeq(fs, 1, Len(fs) - 1)

\* a lookup that sees two scopes only: frame j, then frame 1
GetIndexTwoScopes(fs, j, name) ==
    IF j >= 1 /\ DictHas(fs[j], name) THEN j
    ELSE IF Len(fs) >= 1 /\ DictHas(fs[1], name) THEN 1
    ELSE 0

\* the index of the frame CallStack.get returns from, searching from frame j
\* down to frame 1; 0 when the loop ends without a frame (get throws)
RECURSIVE GetIndex(_, _, _)
GetIndex(fs, j, name) ==
    IF j < 1 THEN 0
    ELSE IF DictHas(fs[j], name) THEN j
    ELSE GetIndex(fs, j - 1, name)

CallStackDefined(fs, name) == GetIndex(fs, Len(fs), name) # 0

CallStackGet(fs, name) == fs[GetIndex(fs, Len(fs), name)][name]

\* a write that goes to the frame a read of the name would find
CallStackSetVisible(fs, name, value) ==
    LET j == IF CallStackDefined(fs, name) THEN GetIndex(fs, Len(fs), name) ELSE Len(fs)
    IN  [fs EXCEPT ![j] = DictSet(fs[j], name, value)]

\* CallStack.set: the top frame only
CallStackSet(fs, name, value) ==
    [fs EXCEPT ![Len(fs)] = DictSet(fs[Len(fs)], name, value)]

\* isTruthy
IsTruthy(value) == ~(value.type = "NUM" /\ NumEq(Number(value.content), Fin(0)))

\* nodeToBinaryOp, applied to two numbers; the node types of the default
\* branch (which throws) are not in the domain
NodeToBinaryOp(type, x, y) ==
    CASE type \in {"ADD", "ASSIGN_ADD"} -> NumAdd(x, y)
      [] type \in {"SUB", "ASSIGN_SUB"} -> NumSub(x, y)
      [] type \in {"MUL", "ASSIGN_MUL"} -> NumMul(x, y)
      [] type \in {"DIV", "ASSIGN_DIV"} -> NumDiv(x, y)
      [] type \in {"MOD", "ASSIGN_MOD"} -> NumMod(x, y)

\* the comparison executeCompare selects for a node type
CompareOp(type, x, y) ==
    CASE type = "LT" -> NumLt(x, y)
      [] type = "LTE" -> NumLt(x, y) \/ NumEq(x, y)
      [] type = "GT" -> NumLt(y, x)
      [] type = "GTE" -> NumLt(y, x) \/ NumEq(x, y)
      [] OTHER -> FALSE

\* registerFunction: the name of a FUNCTION node, content.split("(", 1)[0]
FunctionName(content) == Split(content, "(")[1]

\* executeCall: the parameter names of a FUNCTION node,
\* content.split("(")[1].slice(0, -1).split(",")
ParamNames(content) == Split(SliceDropLast(Split(content, "(")[2]), ",")

\* an arity check that refuses only a call with too few arguments
TooFewArguments(paramNames, params) == Len(params) < Len(paramNames)

\* executeCall: the arity check
ArityMismatch(paramNames, params) == Len(paramNames) # Len(params)

-----------------------------------------------------------------------------
(* Parse trees, built as the parser builds them *)

Id(name) == ParseNode("ID", name, << >>)
Num(text) == ParseNode("NUM", text, << >>)
Str(text) == ParseNode("STR", text, << >>)

\* parseBinaryLeft / parseBinaryRight: an operator node over two subtrees
Binary(type, left, right) == ParseNode(type, << >>, << left, right >>)

\* parseUnary: an operator node over one subtree
Unary(type, child) == ParseNode(type, << >>, << child >>)

Assign(name, right) == Binary("ASSIGN", Id(name), right)

\* parseCall: the callee's name is the content, the arguments the children
Call(name, args) == ParseNode("CALL", name, args)

Block(lines) == ParseNode("BLOCK", << >>, lines)

If(condition, block) == ParseNode("IF", << >>, << condition, block >>)

IfElse(condition, block, elseBlock) ==
    ParseNode("IF", << >>, << condition, block, elseBlock >>)

While(condition, block) == ParseNode("WHILE", << >>, << condition, block >>)

Return(children) == ParseNode("RETURN", << >>, children)

\* parseFunction: the content is name + "(" + args.join(",") + ")"
Function(name, args, block) ==
    ParseNode("FUNCTION", name \o << "(" >> \o Join(args, ",") \o << ")" >>,
              << block >>)

-----------------------------------------------------------------------------
(* The programs given to execute *)

\* function f(x) { x = x + 1; y = 9; return x; }
\* y = 5; r = f(y); s = f(1, 2);
ByValue ==
    Block(<< Function(<< "f" >>, << << "x" >> >>,
                 Block(<< Assign(<< "x" >>, Binary("ADD", Id(<< "x" >>), Num(<< "1" >>))),
                          Assign(<< "y" >>, Num(<< "9" >>)),
                          Return(<< Id(<< "x" >>) >>) >>)),
             Assign(<< "y" >>, Num(<< "5" >>)),
             Assign(<< "r" >>, Call(<< "f" >>, << Id(<< "y" >>) >>)),
             Assign(<< "s" >>, Call(<< "f" >>, << Num(<< "1" >>), Num(<< "2" >>) >>)) >>)

\* function d(a) { return x; }  function k(x) { return d(0); }
\* r = k(7); s = d(1); y = x + 2;
Dynamic ==
    Block(<< Function(<< "d" >>, << << "a" >> >>,
                 Block(<< Return(<< Id(<< "x" >>) >>) >>)),
             Function(<< "k" >>, << << "x" >> >>,
                 Block(<< Return(<< Call(<< "d" >>, << Num(<< "0" >>) >>) >>) >>)),
             Assign(<< "r" >>, Call(<< "k" >>, << Num(<< "7" >>) >>)),
             Assign(<< "s" >>, Call(<< "d" >>, << Num(<< "1" >>) >>)),
             Assign(<< "y" >>, Binary("ADD", Id(<< "x" >>), Num(<< "2" >>))) >>)

\* function z() { return 3; }
\* r = z(1); s = z();
ZeroParams ==
    Block(<< Function(<< "z" >>, << >>,
                 Block(<< Return(<< Num(<< "3" >>) >>) >>)),
             Assign(<< "r" >>, Call(<< "z" >>, << Num(<< "1" >>) >>)),
             Assign(<< "s" >>, Call(<< "z" >>, << >>)) >>)

\* function w(n) { while (n > 0) { n -= 1; if (n < 1) return n; } return 7; }
\* r = w(0); s = w(1);
Loop ==
    Block(<< Function(<< "w" >>, << << "n" >> >>,
                 Block(<< While(Binary("GT", Id(<< "n" >>), Num(<< "0" >>)),
                              Block(<< Binary("ASSIGN_SUB", Id(<< "n" >>), Num(<< "1" >>)),
                                       If(Binary("LT", Id(<< "n" >>), Num(<< "1" >>)),
                                          Return(<< Id(<< "n" >>) >>)) >>)),
                          Return(<< Num(<< "7" >>) >>) >>)),
             Assign(<< "r" >>, Call(<< "w" >>, << Num(<< "0" >>) >>)),
             Assign(<< "s" >>, Call(<< "w" >>, << Num(<< "1" >>) >>)) >>)

\* function m(p) { p += 1; return p; }
\* r = m(1); p = 1;
HandleParam ==
    Block(<< Function(<< "m" >>, << << "p" >> >>,
                 Block(<< Binary("ASSIGN_ADD", Id(<< "p" >>), Num(<< "1" >>)),
                          Return(<< Id(<< "p" >>) >>) >>)),
             Assign(<< "r" >>, Call(<< "m" >>, << Num(<< "1" >>) >>)),
             Assign(<< "p" >>, Num(<< "1" >>)) >>)

\* function h(a) { return 1; }
\* r = h(2);
HandleDecl ==
    Block(<< Function(<< "h" >>, << << "a" >> >>,
                 Block(<< Return(<< Num(<< "1" >>) >>) >>)),
             Assign(<< "r" >>, Call(<< "h" >>, << Num(<< "2" >>) >>)) >>)

\* p(a = 1, a + 1); r = h(2);
HandleCall ==
    Block(<< Call(<< "p" >>, << Assign(<< "a" >>, Num(<< "1" >>)),
                                Binary("ADD", Id(<< "a" >>), Num(<< "1" >>)) >>),
             Assign(<< "r" >>, Call(<< "h" >>, << Num(<< "2" >>) >>)) >>)

\* x = 5; t = !(1 == 2) && -1 < 0 || 0;
SetX ==
    Block(<< Assign(<< "x" >>, Num(<< "5" >>)),
             Assign(<< "t" >>,
                 Binary("OR",
                     Binary("AND",
                         Unary("NOT", Binary("EQ", Num(<< "1" >>), Num(<< "2" >>))),
                         Binary("LT", Unary("NEG", Num(<< "1" >>)), Num(<< "0" >>))),
                     Num(<< "0" >>))) >>)

\* a = 1; while (a < 3) a += 1; if (a == 3) return -a; a = 2;
TopReturn ==
    Block(<< Assign(<< "a" >>, Num(<< "1" >>)),
             While(Binary("LT", Id(<< "a" >>), Num(<< "3" >>)),
                   Binary("ASSIGN_ADD", Id(<< "a" >>), Num(<< "1" >>))),
             If(Binary("EQ", Id(<< "a" >>), Num(<< "3" >>)),
                Return(<< Unary("NEG", Id(<< "a" >>)) >>)),
             Assign(<< "a" >>, Num(<< "2" >>)) >>)

\* function f() { return 1 / 0; }
\* c = 0 && f(); c = c && u; d = 1 || p(c); d = d || (b = 9);
\* e = !0 && (b = 2); g = 0 || (b = 0);
ShortCircuit ==
    Block(<< Function(<< "f" >>, << >>,
                 Block(<< Return(<< Binary("DIV", Num(<< "1" >>), Num(<< "0" >>)) >>) >>)),
             Assign(<< "c" >>, Binary("AND", Num(<< "0" >>), Call(<< "f" >>, << >>))),
             Assign(<< "c" >>, Binary("AND", Id(<< "c" >>), Id(<< "u" >>))),
             Assign(<< "d" >>, Binary("OR", Num(<< "1" >>), Call(<< "p" >>, << Id(<< "c" >>) >>))),
             Assign(<< "d" >>, Binary("OR", Id(<< "d" >>), Assign(<< "b" >>, Num(<< "9" >>)))),
             Assign(<< "e" >>, Binary("AND", Unary("NOT", Num(<< "0" >>)),
                                             Assign(<< "b" >>, Num(<< "2" >>)))),
             Assign(<< "g" >>, Binary("OR", Num(<< "0" >>), Assign(<< "b" >>, Num(<< "0" >>)))) >>)

\* function q(a) { return; a = 1; p(a); }
\* function e(a) { a = 1; }
\* function v(a) { if (a) { return a + 1; b = 1; } p(a); return 0; }
\* r = q(5); s = e(5); t = v(1); u = v(0);
Returns ==
    Block(<< Function(<< "q" >>, << << "a" >> >>,
                 Block(<< Return(<< >>),
                          Assign(<< "a" >>, Num(<< "1" >>)),
                          Call(<< "p" >>, << Id(<< "a" >>) >>) >>)),
             Function(<< "e" >>, << << "a" >> >>,
                 Block(<< Assign(<< "a" >>, Num(<< "1" >>)) >>)),
             Function(<< "v" >>, << << "a" >> >>,
                 Block(<< If(Id(<< "a" >>),
                             Block(<< Return(<< Binary("ADD", Id(<< "a" >>), Num(<< "1" >>)) >>),
                                      Assign(<< "b" >>, Num(<< "1" >>)) >>)),
                          Call(<< "p" >>, << Id(<< "a" >>) >>),
                          Return(<< Num(<< "0" >>) >>) >>)),
             Assign(<< "r" >>, Call(<< "q" >>, << Num(<< "5" >>) >>)),
             Assign(<< "s" >>, Call(<< "e" >>, << Num(<< "5" >>) >>)),
             Assign(<< "t" >>, Call(<< "v" >>, << Num(<< "1" >>) >>)),
             Assign(<< "u" >>, Call(<< "v" >>, << Num(<< "0" >>) >>)) >>)

Scripts == { "ByValue", "Dynamic", "ZeroParams", "Loop", "HandleParam",
             "HandleDecl", "HandleCall", "SetX" }

\* parser.parse(lexer.tokens) for the text of a program
Root(s) ==
    CASE s = "ByValue" -> ByValue
      [] s = "Dynamic" -> Dynamic
      [] s = "ZeroParams" -> ZeroParams
      [] s = "Loop" -> Loop
      [] s = "HandleParam" -> HandleParam
      [] s = "HandleDecl" -> HandleDecl
      [] s = "HandleCall" -> HandleCall
      [] s = "SetX" -> SetX
      [] s = "TopReturn" -> TopReturn
      [] s = "ShortCircuit" -> ShortCircuit
      [] s = "Returns" -> Returns

\* the names the host registers handles under
HandleNames == { << "p" >>, << "h" >> }

-----------------------------------------------------------------------------
(* The evaluator *)

NoNode == ParseNode("ERR", << >>, << >>)

\* new Lexer(), before read is called
NewLexer == [text |-> << >>, pos |-> 0, tokens |-> << >>, last |-> "", at |-> "new"]

\* no call of Parser.parse has been made
NotParsed == [by |-> "none", err |-> "none", value |-> NoNode, pos |-> 0]

Init ==
    /\ frames = [i \in Instances |-> CallStackNew]
    /\ returnedValue = [i \in Instances |-> Undefined]
    /\ handles = [i \in Instances |-> EmptyDict]
    /\ self = 1
    /\ mode = "idle"
    /\ ctrl = NoNode
    /\ val = Void
    /\ kont = << >>
    /\ outcome = "none"
    /\ errNode = NoNode
    /\ script = "none"
    /\ calls = << >>
    /\ execCount = 0
    /\ globalsAtEnd = [i \in Instances |-> EmptyDict]
    /\ phase = [i \in Instances |-> "setup"]
    /\ tokens = << >>
    /\ parsed = NotParsed
    /\ lexer = NewLexer
    /\ objects = << >>
    /\ stored = EmptyDict
    /\ given = << >>

host == << self, script, execCount, tokens, parsed, lexer, objects, stored, given >>

Top == kont[Len(kont)]
Pop == SubSeq(kont, 1, Len(kont) - 1)
Push(k) == Append(kont, k)
Replace(k) == [kont EXCEPT ![Len(kont)] = k]

\* executeNode dispatching on the node whether or not a return is pending
EnteringAnyway(types) ==
    /\ mode = "eval"
    /\ ctrl.type \in types

\* executeNode is entered on a node of one of the types, with no return pending
Entering(types) ==
    /\ mode = "eval"
    /\ returnedValue[self] = Undefined
    /\ ctrl.type \in types

\* a child executeNode has returned to the handler waiting in state k
Returning(k) ==
    /\ mode = "ret"
    /\ Len(kont) > 0
    /\ Top.k = k

\* call executeNode(node) with the handlers k waiting
Eval(node, k) ==
    /\ mode' = "eval"
    /\ ctrl' = node
    /\ val' = Void
    /\ kont' = k

\* return value from executeNode to the handlers k
Ret(value, k) ==
    /\ mode' = "ret"
    /\ ctrl' = NoNode
    /\ val' = value
    /\ kont' = k

\* throw Error(...): nothing catches it, execute ends; the call stack and the
\* pending return value stay as they are
Throw(kind, node) ==
    /\ mode' = "idle"
    /\ ctrl' = NoNode
    /\ val' = Void
    /\ kont' = << >>
    /\ outcome' = kind
    /\ errNode' = node
    /\ globalsAtEnd' = [globalsAtEnd EXCEPT ![self] = frames[self][1]]
    /\ UNCHANGED << frames, returnedValue, handles, calls, phase, host >>

\* handles.add(name, callback) by the host, between execute calls
HandlesAdd(i, name) ==
    /\ mode = "idle"
    /\ ~DictHas(handles[i], name)
    /\ handles' = [handles EXCEPT ![i] = DictSet(handles[i], name, "callback")]
    /\ phase' = [phase EXCEPT ![i] = IF @ = "setup" THEN "setup" ELSE "late"]
    /\ UNCHANGED << frames, returnedValue, self, mode, ctrl, val, kont, outcome,
                    errNode, script, calls, execCount, globalsAtEnd, tokens, parsed,
                    lexer, objects, stored, given >>

\* an execute that begins from a new call stack
ExecuteFresh(i, s) ==
    /\ mode = "idle"
    /\ execCount < MaxExec
    /\ self' = i
    /\ script' = s
    /\ execCount' = execCount + 1
    /\ calls' = << >>
    /\ outcome' = "running"
    /\ errNode' = NoNode
    /\ phase' = [phase EXCEPT ![i] = IF @ = "setup" THEN "run" ELSE @]
    /\ Eval(Root(s), << [k |-> "execute"] >>)
    /\ frames' = [frames EXCEPT ![i] = CallStackNew]
    /\ UNCHANGED << returnedValue, handles, globalsAtEnd, tokens, parsed,
                    lexer, objects, stored, given >>

\* execute(code), from the parse tree on
Execute(i, s) ==
    /\ mode = "idle"
    /\ execCount < MaxExec
    /\ self' = i
    /\ script' = s
    /\ execCount' = execCount + 1
    /\ calls' = << >>
    /\ outcome' = "running"
    /\ errNode' = NoNode
    /\ phase' = [phase EXCEPT ![i] = IF @ = "setup" THEN "run" ELSE @]
    /\ Eval(Root(s), << [k |-> "execute"] >>)
    /\ UNCHANGED << frames, returnedValue, handles, globalsAtEnd, tokens, parsed,
                    lexer, objects, stored, given >>

\* execute returns
ExecuteDone ==
    /\ Returning("execute")
    /\ mode' = "idle"
    /\ ctrl' = NoNode
    /\ val' = Void
    /\ kont' = << >>
    /\ outcome' = "ok"
    /\ globalsAtEnd' = [globalsAtEnd EXCEPT ![self] = frames[self][1]]
    /\ UNCHANGED << frames, returnedValue, handles, errNode, calls, phase, host >>

\* executeNode with a return pending: nothing is executed
ExecuteNodeReturned ==
    /\ mode = "eval"
    /\ returnedValue[self] # Undefined
    /\ Ret(Void, kont)
    /\ UNCHANGED << frames, returnedValue, handles, outcome, errNode, calls,
                    globalsAtEnd, phase, host >>

same == << frames, returnedValue, handles, outcome, errNode, calls, globalsAtEnd, phase, host >>
sameButFrames == << returnedValue, handles, outcome, errNode, calls, globalsAtEnd, phase, host >>

ExecuteBlock ==
    /\ Entering({"BLOCK"})
    /\ IF Len(ctrl.children) = 0
       THEN Ret(Void, kont)
       ELSE Eval(ctrl.children[1], Push([k |-> "block", node |-> ctrl, i |-> 1]))
    /\ UNCHANGED same

BlockNext ==
    /\ Returning("block")
    /\ IF Top.i < Len(Top.node.children)
       THEN Eval(Top.node.children[Top.i + 1], Replace([Top EXCEPT !.i = @ + 1]))
       ELSE Ret(Void, Pop)
    /\ UNCHANGED same

ExecuteIf ==
    /\ Entering({"IF"})
    /\ Eval(ctrl.children[1], Push([k |-> "if", node |-> ctrl]))
    /\ UNCHANGED same

IfBranch ==
    /\ Returning("if")
    /\ IF IsTruthy(val)
       THEN Eval(Top.node.children[2], Replace([k |-> "ifBody"]))
       ELSE IF Len(Top.node.children) > 2
       THEN Eval(Top.node.children[3], Replace([k |-> "ifBody"]))
       ELSE Ret(Void, Pop)
    /\ UNCHANGED same

IfDone ==
    /\ Returning("ifBody")
    /\ Ret(Void, Pop)
    /\ UNCHANGED same

ExecuteWhile ==
    /\ Entering({"WHILE"})
    /\ Eval(ctrl.children[1], Push([k |-> "whileCond", node |-> ctrl]))
    /\ UNCHANGED same

WhileTest ==
    /\ Returning("whileCond")
    /\ IF IsTruthy(val)
       THEN Eval(Top.node.children[2], Replace([k |-> "whileBody", node |-> Top.node]))
       ELSE Ret(Void, Pop)
    /\ UNCHANGED same

WhileAgain ==
    /\ Returning("whileBody")
    /\ Eval(Top.node.children[1], Replace([k |-> "whileCond", node |-> Top.node]))
    /\ UNCHANGED same

\* a declaration that refuses no name
NeverReserved(i, name) == FALSE

\* registerFunction: whether the name is refused
FunctionReserved(i, name) == DictHas(handles[i], name)

RegisterFunction ==
    /\ Entering({"FUNCTION"})
    /\ LET name == FunctionName(ctrl.content) IN
       IF FunctionReserved(self, name)
       THEN Throw("reserved", ctrl)
       ELSE /\ frames' = [frames EXCEPT ![self] = CallStackSet(@, name, ctrl)]
            /\ Ret(Void, kont)
            /\ UNCHANGED sameButFrames

\* an index past the end of an array yields undefined, which as a key of a
\* Dict is the property "undefined"
UndefinedKey == << "u", "n", "d", "e", "f", "i", "n", "e", "d" >>

\* the loop that binds the parameters in the new frame
RECURSIVE BindParams(_, _, _, _)
BindParams(fs, paramNames, values, i) ==
    IF i > Len(values) THEN fs
    ELSE BindParams(CallStackSet(fs, IF i <= Len(paramNames) THEN paramNames[i]
                                     ELSE UndefinedKey, values[i]),
                    paramNames, values, i + 1)

\* executeCall once the arguments are evaluated: push the frame, bind the
\* parameters, call the body
EnterBody(func, values, k) ==
    IF \E i \in 1..Len(values) : IsParseNode(values[i])
    THEN Throw("functionparam", func)
    ELSE /\ frames' = [frames EXCEPT ![self] =
                          BindParams(PushFrame(@), ParamNames(func.content), values, 1)]
         /\ Eval(func.children[1], k)
         /\ UNCHANGED sameButFrames

\* a dispatch in which a binding on the call stack hides the handle
IsUnshadowedHandleCall(i, node) ==
    DictHas(handles[i], node.content) /\ ~CallStackDefined(frames[i], node.content)

\* executeCall: whether the call goes to a handle
IsHandleCall(i, node) == DictHas(handles[i], node.content)

\* an executeCall that evaluates the arguments whatever their number is
ExecuteCallUnchecked ==
    /\ Entering({"CALL"})
    /\ ~IsHandleCall(self, ctrl)
    /\ IF ~CallStackDefined(frames[self], ctrl.content)
       THEN Throw("undefined", ctrl)
       ELSE LET func == CallStackGet(frames[self], ctrl.content) IN
            IF ~IsParseNode(func)
            THEN Throw("notfunction", ctrl)
            ELSE IF Len(ctrl.children) = 0
            THEN EnterBody(func, << >>, Push([k |-> "callBody"]))
            ELSE /\ Eval(ctrl.children[1],
                         Push([k |-> "callArgs", node |-> ctrl, func |-> func,
                               values |-> << >>]))
                 /\ UNCHANGED same

ExecuteCall ==
    /\ Entering({"CALL"})
    /\ ~IsHandleCall(self, ctrl)
    /\ IF ~CallStackDefined(frames[self], ctrl.content)
       THEN Throw("undefined", ctrl)
       ELSE LET func == CallStackGet(frames[self], ctrl.content) IN
            IF ~IsParseNode(func)
            THEN Throw("notfunction", ctrl)
            ELSE IF ArityMismatch(ParamNames(func.content), ctrl.children)
            THEN Throw("arity", ctrl)
            ELSE IF Len(ctrl.children) = 0
            THEN EnterBody(func, << >>, Push([k |-> "callBody"]))
            ELSE /\ Eval(ctrl.children[1],
                         Push([k |-> "callArgs", node |-> ctrl, func |-> func,
                               values |-> << >>]))
                 /\ UNCHANGED same

CallArg ==
    /\ Returning("callArgs")
    /\ LET values == Append(Top.values, val) IN
       IF Len(values) < Len(Top.node.children)
       THEN /\ Eval(Top.node.children[Len(values) + 1],
                    Replace([Top EXCEPT !.values = values]))
            /\ UNCHANGED same
       ELSE EnterBody(Top.func, values, Replace([k |-> "callBody"]))

\* a return from a call that leaves the returned value pending
CallReturnKeepPending ==
    /\ Returning("callBody")
    /\ frames' = [frames EXCEPT ![self] = PopFrame(@)]
    /\ Ret(IF returnedValue[self] = Undefined THEN Void ELSE returnedValue[self], Pop)
    /\ UNCHANGED << returnedValue, handles, outcome, errNode, calls, globalsAtEnd, phase, host >>

CallReturn ==
    /\ Returning("callBody")
    /\ frames' = [frames EXCEPT ![self] = PopFrame(@)]
    /\ returnedValue' = [returnedValue EXCEPT ![self] = Undefined]
    /\ Ret(IF returnedValue[self] = Undefined THEN Void ELSE returnedValue[self], Pop)
    /\ UNCHANGED << handles, outcome, errNode, calls, globalsAtEnd, phase, host >>

\* handle(values): the callback is host code; it is given the values and
\* returns a new ReturnValue()
InvokeHandle(name, values, k) ==
    /\ calls' = Append(calls, [name |-> name, args |-> values])
    /\ Ret(Void, k)
    /\ UNCHANGED << frames, returnedValue, handles, outcome, errNode, globalsAtEnd, phase, host >>

ExecuteHandleCall ==
    /\ Entering({"CALL"})
    /\ IsHandleCall(self, ctrl)
    /\ IF Len(ctrl.children) = 0
       THEN InvokeHandle(ctrl.content, << >>, kont)
       ELSE /\ Eval(ctrl.children[1],
                    Push([k |-> "handleArgs", node |-> ctrl, values |-> << >>]))
            /\ UNCHANGED same

HandleArg ==
    /\ Returning("handleArgs")
    /\ LET values == Append(Top.values, val) IN
       IF Len(values) < Len(Top.node.children)
       THEN /\ Eval(Top.node.children[Len(values) + 1],
                    Replace([Top EXCEPT !.values = values]))
            /\ UNCHANGED same
       ELSE InvokeHandle(Top.node.content, values, Pop)

ExecuteReturn ==
    /\ Entering({"RETURN"})
    /\ IF Len(ctrl.children) > 0
       THEN /\ Eval(ctrl.children[1], Push([k |-> "return"]))
            /\ UNCHANGED same
       ELSE /\ returnedValue' = [returnedValue EXCEPT ![self] = Void]
            /\ Ret(Void, kont)
            /\ UNCHANGED << frames, handles, outcome, errNode, calls, globalsAtEnd, phase, host >>

ReturnSet ==
    /\ Returning("return")
    /\ returnedValue' = [returnedValue EXCEPT ![self] = val]
    /\ Ret(Void, Pop)
    /\ UNCHANGED << frames, handles, outcome, errNode, calls, globalsAtEnd, phase, host >>

\* executeAssign: whether the target name is refused
AssignReserved(i, varName) == DictHas(handles[i], varName)

ExecuteAssign ==
    /\ Entering({"ASSIGN"})
    /\ LET varName == ctrl.children[1].content IN
       IF AssignReserved(self, varName)
       THEN Throw("reserved", ctrl)
       ELSE /\ Eval(ctrl.children[2], Push([k |-> "assign", name |-> varName]))
            /\ UNCHANGED same

AssignStore ==
    /\ Returning("assign")
    /\ frames' = [frames EXCEPT ![self] = CallStackSet(@, Top.name, val)]
    /\ Ret(val, Pop)
    /\ UNCHANGED sameButFrames

CompoundTypes == {"ASSIGN_ADD", "ASSIGN_SUB", "ASSIGN_MUL", "ASSIGN_DIV", "ASSIGN_MOD"}

ExecuteCompoundAssign ==
    /\ Entering(CompoundTypes)
    /\ LET varName == ctrl.children[1].content IN
       IF ~CallStackDefined(frames[self], varName)
       THEN Throw("undefined", ctrl)
       ELSE /\ Eval(ctrl.children[2],
                    Push([k |-> "compound", node |-> ctrl,
                          left |-> CallStackGet(frames[self], varName)]))
            /\ UNCHANGED same

CompoundStore ==
    /\ Returning("compound")
    /\ LET node == Top.node
           left == Top.left
           right == val
       IN  IF node.type = "ASSIGN_ADD" /\ (left.type = "STR" \/ right.type = "STR")
           THEN IF left.type # "STR" \/ right.type = "STR"
                THEN Throw("concat", node)
                ELSE /\ Ret(ReturnValue("STR", left.content \o right.content), Pop)
                     /\ UNCHANGED same
           ELSE IF left.type # "NUM" \/ right.type # "NUM"
           THEN Throw("arith", node)
           ELSE LET ret == ReturnValue("NUM",
                               String(NodeToBinaryOp(node.type, Number(left.content),
                                                     Number(right.content))))
                IN  /\ frames' = [frames EXCEPT ![self] =
                                     CallStackSet(@, node.children[1].content, ret)]
                    /\ Ret(ret, Pop)
                    /\ UNCHANGED sameButFrames

ExecuteAtom ==
    /\ Entering({"ID", "NUM", "STR"})
    /\ IF ctrl.type = "ID"
       THEN IF ~CallStackDefined(frames[self], ctrl.content)
            THEN Throw("undefined", ctrl)
            ELSE IF ~IsReturnValue(CallStackGet(frames[self], ctrl.content))
            THEN Throw("functionvalue", ctrl)
            ELSE /\ Ret(CallStackGet(frames[self], ctrl.content), kont)
                 /\ UNCHANGED same
       ELSE /\ Ret(ReturnValue(ctrl.type, ctrl.content), kont)
            /\ UNCHANGED same

ArithTypes == {"ADD", "SUB", "MUL", "DIV", "MOD"}
OrderTypes == {"LT", "LTE", "GT", "GTE"}
EqTypes == {"EQ", "NEQ"}

\* executeBinaryArith, executeCompare, executeEq: the left operand first
ExecuteOperands ==
    /\ Entering(ArithTypes \cup OrderTypes \cup EqTypes)
    /\ Eval(ctrl.children[1], Push([k |-> "left", node |-> ctrl]))
    /\ UNCHANGED same

\* then the right operand
OperandRight ==
    /\ Returning("left")
    /\ Eval(Top.node.children[2], Replace([k |-> "right", node |-> Top.node, left |-> val]))
    /\ UNCHANGED same

\* an addition that concatenates as soon as one operand is a string
BinaryArithCoercing ==
    /\ Returning("right")
    /\ Top.node.type \in ArithTypes
    /\ LET node == Top.node
           left == Top.left
           right == val
       IN  IF node.type = "ADD" /\ (left.type = "STR" \/ right.type = "STR")
           THEN /\ Ret(ReturnValue("STR", left.content \o right.content), Pop)
                /\ UNCHANGED same
           ELSE IF left.type # "NUM" \/ right.type # "NUM"
           THEN Throw("arith", node)
           ELSE /\ Ret(ReturnValue("NUM",
                           String(NodeToBinaryOp(node.type, Number(left.content),
                                                 Number(right.content)))), Pop)
                /\ UNCHANGED same

BinaryArith ==
    /\ Returning("right")
    /\ Top.node.type \in ArithTypes
    /\ LET node == Top.node
           left == Top.left
           right == val
       IN  IF node.type = "ADD" /\ (left.type = "STR" \/ right.type = "STR")
           THEN IF left.type # "STR" \/ right.type # "STR"
                THEN Throw("concat", node)
                ELSE /\ Ret(ReturnValue("STR", left.content \o right.content), Pop)
                     /\ UNCHANGED same
           ELSE IF left.type # "NUM" \/ right.type # "NUM"
           THEN Throw("arith", node)
           ELSE /\ Ret(ReturnValue("NUM",
                           String(NodeToBinaryOp(node.type, Number(left.content),
                                                 Number(right.content)))), Pop)
                /\ UNCHANGED same

Compare ==
    /\ Returning("right")
    /\ Top.node.type \in OrderTypes
    /\ IF Top.left.type # "NUM" \/ val.type # "NUM"
       THEN Throw("compare", Top.node)
       ELSE /\ Ret(ReturnValue("NUM",
                       IF CompareOp(Top.node.type, Number(Top.left.content),
                                    Number(val.content))
                       THEN << "1" >> ELSE << "0" >>), Pop)
            /\ UNCHANGED same

\* the executeEq that != was first routed to: it does not invert
ExecuteEqEarlier ==
    /\ Returning("right")
    /\ Top.node.type \in EqTypes
    /\ LET left == Top.left
           right == val
           result == IF left.type = "NUM"
                     THEN NumEq(Number(left.content), Number(right.content))
                     ELSE left.content = right.content
       IN  IF left.type # right.type
           THEN Ret(ReturnValue("NUM", << "0" >>), Pop)
           ELSE Ret(ReturnValue("NUM", IF result THEN << "1" >> ELSE << "0" >>), Pop)
    /\ UNCHANGED same

ExecuteEq ==
    /\ Returning("right")
    /\ Top.node.type \in EqTypes
    /\ LET invert == Top.node.type = "NEQ"
           left == Top.left
           right == val
           result == IF left.type = "NUM"
                     THEN NumEq(Number(left.content), Number(right.content))
                     ELSE left.content = right.content
       IN  IF left.type # right.type
           THEN Ret(ReturnValue("NUM", IF invert THEN << "1" >> ELSE << "0" >>), Pop)
           ELSE Ret(ReturnValue("NUM", IF result # invert THEN << "1" >> ELSE << "0" >>), Pop)
    /\ UNCHANGED same

ExecuteAndOr ==
    /\ Entering({"AND", "OR"})
    /\ Eval(ctrl.children[1], Push([k |-> "andOr", node |-> ctrl]))
    /\ UNCHANGED same

\* an AND/OR that evaluates its right operand whatever the left one is
AndOrLeftEager ==
    /\ Returning("andOr")
    /\ Eval(Top.node.children[2], Replace([k |-> "andOrRight"]))
    /\ UNCHANGED same

AndOrLeft ==
    /\ Returning("andOr")
    /\ LET left == IsTruthy(val) IN
       IF ~left /\ Top.node.type = "AND"
       THEN Ret(ReturnValue("NUM", << "0" >>), Pop)
       ELSE IF left /\ Top.node.type = "OR"
       THEN Ret(ReturnValue("NUM", << "1" >>), Pop)
       ELSE Eval(Top.node.children[2], Replace([k |-> "andOrRight"]))
    /\ UNCHANGED same

AndOrRight ==
    /\ Returning("andOrRight")
    /\ Ret(ReturnValue("NUM", IF IsTruthy(val) THEN << "1" >> ELSE << "0" >>), Pop)
    /\ UNCHANGED same

\* executeNot, executeNeg: the operand
ExecuteUnary ==
    /\ Entering({"NOT", "NEG"})
    /\ Eval(ctrl.children[1], Push([k |-> "unary", node |-> ctrl]))
    /\ UNCHANGED same

ExecuteNot ==
    /\ Returning("unary")
    /\ Top.node.type = "NOT"
    /\ Ret(ReturnValue("NUM", IF IsTruthy(val) THEN << "0" >> ELSE << "1" >>), Pop)
    /\ UNCHANGED same

ExecuteNeg ==
    /\ Returning("unary")
    /\ Top.node.type = "NEG"
    /\ IF val.type # "NUM"
       THEN Throw("negate", Top.node)
       ELSE /\ Ret(ReturnValue("NUM", String(NumNeg(Number(val.content)))), Pop)
            /\ UNCHANGED same

Next ==
    \/ \E i \in Instances, name \in HandleNames : HandlesAdd(i, name)
    \/ \E i \in Instances, s \in Scripts : Execute(i, s)
    \/ ExecuteDone
    \/ ExecuteNodeReturned
    \/ ExecuteBlock
    \/ BlockNext
    \/ ExecuteIf
    \/ IfBranch
    \/ IfDone
    \/ ExecuteWhile
    \/ WhileTest
    \/ WhileAgain
    \/ RegisterFunction
    \/ ExecuteCall
    \/ CallArg
    \/ CallReturn
    \/ ExecuteHandleCall
    \/ HandleArg
    \/ ExecuteReturn
    \/ ReturnSet
    \/ ExecuteAssign
    \/ AssignStore
    \/ ExecuteCompoundAssign
    \/ CompoundStore
    \/ ExecuteAtom
    \/ ExecuteOperands
    \/ OperandRight
    \/ BinaryArith
    \/ Compare
    \/ ExecuteEq
    \/ ExecuteAndOr
    \/ AndOrLeft
    \/ AndOrRight
    \/ ExecuteUnary
    \/ ExecuteNot
    \/ ExecuteNeg

Spec == Init /\ [][Next]_vars

-----------------------------------------------------------------------------
(* One evaluator given programs about return and the logical operators *)

FlowScripts == { "TopReturn", "ShortCircuit", "Returns" }

\* executeNode: one step of any handler
Evaluate ==
    \/ ExecuteDone
    \/ ExecuteNodeReturned
    \/ ExecuteBlock
    \/ BlockNext
    \/ ExecuteIf
    \/ IfBranch
    \/ IfDone
    \/ ExecuteWhile
    \/ WhileTest
    \/ WhileAgain
    \/ RegisterFunction
    \/ ExecuteCall
    \/ CallArg
    \/ CallReturn
    \/ ExecuteHandleCall
    \/ HandleArg
    \/ ExecuteReturn
    \/ ReturnSet
    \/ ExecuteAssign
    \/ AssignStore
    \/ ExecuteCompoundAssign
    \/ CompoundStore
    \/ ExecuteAtom
    \/ ExecuteOperands
    \/ OperandRight
    \/ BinaryArith
    \/ Compare
    \/ ExecuteEq
    \/ ExecuteAndOr
    \/ AndOrLeft
    \/ AndOrRight
    \/ ExecuteUnary
    \/ ExecuteNot
    \/ ExecuteNeg

NextFlow ==
    \/ HandlesAdd(1, << "p" >>)
    \/ \E s \in FlowScripts : Execute(1, s)
    \/ Evaluate

SpecFlow == Init /\ [][NextFlow]_vars

-----------------------------------------------------------------------------
(* One evaluator given the Fibonacci program of the demonstration *)

MaxFib == 9

\* function fib(x) { if (x > 2) return fib(x - 1) + fib(x - 2); return 1; }
\* n = <n>; r = fib(n);
FibProgram(n) ==
    Block(<< Function(<< "f", "i", "b" >>, << << "x" >> >>,
                 Block(<< If(Binary("GT", Id(<< "x" >>), Num(<< "2" >>)),
                             Return(<< Binary("ADD",
                                 Call(<< "f", "i", "b" >>,
                                      << Binary("SUB", Id(<< "x" >>), Num(<< "1" >>)) >>),
                                 Call(<< "f", "i", "b" >>,
                                      << Binary("SUB", Id(<< "x" >>), Num(<< "2" >>)) >>)) >>)),
                          Return(<< Num(<< "1" >>) >>) >>)),
             Assign(<< "n" >>, Num(NatText(n))),
             Assign(<< "r" >>, Call(<< "f", "i", "b" >>, << Id(<< "n" >>) >>)) >>)

\* execute(code) on instance i for a program whose parse tree is root
Begin(i, s, root) ==
    /\ mode = "idle"
    /\ execCount < MaxExec
    /\ self' = i
    /\ script' = s
    /\ execCount' = execCount + 1
    /\ calls' = << >>
    /\ outcome' = "running"
    /\ errNode' = NoNode
    /\ phase' = [phase EXCEPT ![i] = IF @ = "setup" THEN "run" ELSE @]
    /\ Eval(root, << [k |-> "execute"] >>)
    /\ UNCHANGED << frames, returnedValue, handles, globalsAtEnd, tokens, parsed,
                    lexer, objects, stored, given >>

ExecuteFib(n) == Begin(1, "Fib", FibProgram(n))

NextFib ==
    \/ \E n \in 1..MaxFib : ExecuteFib(n)
    \/ ExecuteDone
    \/ ExecuteNodeReturned
    \/ ExecuteBlock
    \/ BlockNext
    \/ ExecuteIf
    \/ IfBranch
    \/ IfDone
    \/ RegisterFunction
    \/ ExecuteCall
    \/ CallArg
    \/ CallReturn
    \/ ExecuteReturn
    \/ ReturnSet
    \/ ExecuteAssign
    \/ AssignStore
    \/ ExecuteAtom
    \/ ExecuteOperands
    \/ OperandRight
    \/ BinaryArith
    \/ Compare

SpecFib == Init /\ [][NextFib]_vars

-----------------------------------------------------------------------------
(* One evaluator given one arithmetic expression or compound assignment
   over operands of every type *)

\* the operand expressions: numbers, strings, and a handle call for VOID
LeftOperands == { Num(<< "6" >>), Num(<< "0" >>), Str(<< "a" >>), Call(<< "p" >>, << >>) }
RightOperands == { Num(<< "3" >>), Num(<< "0" >>), Str(<< "b" >>), Call(<< "p" >>, << >>) }

CompoundOf(op) ==
    CASE op = "ADD" -> "ASSIGN_ADD"
      [] op = "SUB" -> "ASSIGN_SUB"
      [] op = "MUL" -> "ASSIGN_MUL"
      [] op = "DIV" -> "ASSIGN_DIV"
      [] op = "MOD" -> "ASSIGN_MOD"

\* x = <left>; y = <right>; b = x <op> y;        or, compound,
\* x = <left>; y = <right>; c = (x <op>= y);
ExprProgram(compound, op, left, right) ==
    Block(<< Assign(<< "x" >>, left),
             Assign(<< "y" >>, right),
             IF compound
             THEN Assign(<< "c" >>, Binary(CompoundOf(op), Id(<< "x" >>), Id(<< "y" >>)))
             ELSE Assign(<< "b" >>, Binary(op, Id(<< "x" >>), Id(<< "y" >>))) >>)

\* the one execute call made on the evaluator
ExecuteExpr(compound, op, left, right) ==
    /\ execCount = 0
    /\ Begin(1, "Expr", ExprProgram(compound, op, left, right))

NextExpr ==
    \/ HandlesAdd(1, << "p" >>)
    \/ \E compound \in BOOLEAN, op \in ArithTypes, left \in LeftOperands,
          right \in RightOperands : ExecuteExpr(compound, op, left, right)
    \/ ExecuteDone
    \/ ExecuteBlock
    \/ BlockNext
    \/ ExecuteCall
    \/ ExecuteHandleCall
    \/ ExecuteAssign
    \/ AssignStore
    \/ ExecuteCompoundAssign
    \/ CompoundStore
    \/ ExecuteAtom
    \/ ExecuteOperands
    \/ OperandRight
    \/ BinaryArith

SpecExpr == Init /\ [][NextExpr]_vars

-----------------------------------------------------------------------------
(* Equality: b = left == right; and b = left != right; over operands that  *)
(* yield NUM (1, its other spelling 01, 2, and the NaN of 0 / 0), STR (the *)
(* text 1, a, the empty text) and VOID (the handle p)                      *)

EqOperands ==
    { Num(<< "1" >>), Num(<< "0", "1" >>), Num(<< "2" >>),
      Binary("DIV", Num(<< "0" >>), Num(<< "0" >>)),
      Str(<< "1" >>), Str(<< "a" >>), Str(<< >>),
      Call(<< "p" >>, << >>) }

EqProgram(op, left, right) == Block(<< Assign(<< "b" >>, Binary(op, left, right)) >>)

\* the one execute call made on the evaluator
ExecuteEqProgram(op, left, right) ==
    /\ execCount = 0
    /\ Begin(1, "Eq", EqProgram(op, left, right))

NextEq ==
    \/ HandlesAdd(1, << "p" >>)
    \/ \E op \in EqTypes, left \in EqOperands, right \in EqOperands :
          ExecuteEqProgram(op, left, right)
    \/ ExecuteDone
    \/ ExecuteBlock
    \/ BlockNext
    \/ ExecuteCall
    \/ ExecuteHandleCall
    \/ ExecuteAssign
    \/ AssignStore
    \/ ExecuteAtom
    \/ ExecuteOperands
    \/ OperandRight
    \/ BinaryArith
    \/ ExecuteEq

SpecEq == Init /\ [][NextEq]_vars

-----------------------------------------------------------------------------
(* Calls of a user function:                                               *)
(*     function f(a, b) { p(a, b); x = 9; }                                *)
(*     r = f(<arguments>);                                                 *)
(* with one to MaxArgs arguments, each of x = 1, x = 2, p(3) and x         *)

MaxArgs == 3

ArgExprs ==
    { Assign(<< "x" >>, Num(<< "1" >>)), Assign(<< "x" >>, Num(<< "2" >>)),
      Call(<< "p" >>, << Num(<< "3" >> ) >>), Id(<< "x" >>) }

CallBody ==
    Block(<< Call(<< "p" >>, << Id(<< "a" >>), Id(<< "b" >>) >>),
             Assign(<< "x" >>, Num(<< "9" >>)) >>)

CallProgram(args) ==
    Block(<< Function(<< "f" >>, << << "a" >>, << "b" >> >>, CallBody),
             Assign(<< "r" >>, Call(<< "f" >>, args)) >>)

\* the one execute call made on the evaluator
ExecuteCallProgram(args) ==
    /\ execCount = 0
    /\ Begin(1, "Call", CallProgram(args))

NextCall ==
    \/ HandlesAdd(1, << "p" >>)
    \/ \E n \in 1..MaxArgs : \E args \in [1..n -> ArgExprs] : ExecuteCallProgram(args)
    \/ ExecuteDone
    \/ ExecuteBlock
    \/ BlockNext
    \/ RegisterFunction
    \/ ExecuteCall
    \/ CallArg
    \/ CallReturn
    \/ ExecuteHandleCall
    \/ HandleArg
    \/ ExecuteAssign
    \/ AssignStore
    \/ ExecuteAtom

SpecCall == Init /\ [][NextCall]_vars

-----------------------------------------------------------------------------
(* Values as objects.  A ReturnValue is a JavaScript object with the       *)
(* public fields type and content: objects[id] is the object of identity   *)
(* id, stored[name] the identity of the object frame 0 binds name to.  The *)
(* statements are those of a program run at top level: name = 1;           *)
(* name = other; p(other); p(1); with p a handle whose callback may assign *)
(* to the fields of the objects it was given.                              *)

MaxObjects == 3

Names == { << "x" >>, << "y" >> }

Literals == { << "1" >>, << "2" >> }

\* what a callback may make of an object it was given
Changed == { ReturnValue("STR", << "9" >>), ReturnValue("NUM", << "9" >>) }

othersUnchanged == << frames, returnedValue, handles, self, mode, ctrl, val, kont, outcome,
                      errNode, script, calls, execCount, globalsAtEnd, phase,
                      tokens, parsed, lexer >>

\* name = text;  executeAtom makes a new ReturnValue of the literal,
\* executeAssign stores it
AssignLiteral(name, text) ==
    /\ mode = "idle"
    /\ Len(objects) < MaxObjects
    /\ objects' = Append(objects, ReturnValue("NUM", text))
    /\ stored' = DictSet(stored, name, Len(objects) + 1)
    /\ UNCHANGED << given, othersUnchanged >>

\* name = other;  executeAtom returns the object callStack.get(other)
\* returns, executeAssign stores that object
AssignVariable(name, other) ==
    /\ mode = "idle"
    /\ DictHas(stored, other)
    /\ stored' = DictSet(stored, name, stored[other])
    /\ UNCHANGED << objects, given, othersUnchanged >>

\* p(other);  executeHandleCall pushes what executeAtom returns and calls
\* the callback with the array
HandleCallVariable(other) ==
    /\ mode = "idle"
    /\ DictHas(stored, other)
    /\ given' = << stored[other] >>
    /\ UNCHANGED << objects, stored, othersUnchanged >>

\* p(text);
HandleCallLiteral(text) ==
    /\ mode = "idle"
    /\ Len(objects) < MaxObjects
    /\ objects' = Append(objects, ReturnValue("NUM", text))
    /\ given' = << Len(objects) + 1 >>
    /\ UNCHANGED << stored, othersUnchanged >>

\* the callback assigns to the type and content of a value it was given
HandleChanges(i, value) ==
    /\ mode = "idle"
    /\ i \in 1..Len(given)
    /\ objects[given[i]] # value
    /\ objects' = [objects EXCEPT ![given[i]] = value]
    /\ UNCHANGED << stored, given, othersUnchanged >>

NextShare ==
    \/ \E name \in Names, text \in Literals : AssignLiteral(name, text)
    \/ \E name \in Names, other \in Names : AssignVariable(name, other)
    \/ \E other \in Names : HandleCallVariable(other)
    \/ \E text \in Literals : HandleCallLiteral(text)
    \/ \E value \in Changed : HandleChanges(1, value)

SpecShare == Init /\ [][NextShare]_vars

-----------------------------------------------------------------------------
(* The parser.  A Parser object is its tokens and its position; a method    *)
(* that moves the position is an operator that gives the object it leaves.  *)
(* What a method comes to is a record: the value it returns and the object  *)
(* it leaves, or the error it throws.                                       *)

\* the number of calls the call stack of the engine holds
StackLimit == 16

\* new Token(type, content)
Token(type, content) == [type |-> type, content |-> content]

\* the Parser object after parse has set its tokens and its position; stack
\* counts the calls of accept that have not returned
Parser(toks) == [tokens |-> toks, pos |-> 0, stack |-> 0]

\* return value
Returned(value, this) == [err |-> "none", value |-> value, this |-> this]

\* throw: kind is "Error" (thrown by the parser itself), "TypeError" or
\* "RangeError" (thrown by the engine)
Thrown(kind) == [err |-> kind, value |-> NoNode, this |-> Undefined]

Threw(r) == r.err # "none"

\* let v = call; rest: a call that throws ends the method that made it
Then(call, rest(_)) ==
    CHOOSE r \in { IF Threw(v) THEN v ELSE rest(v) : v \in { call } } : TRUE

end(this) == this.pos >= Len(this.tokens)

cur(this) == IF end(this) THEN Token("ERR", << >>) ELSE this.tokens[this.pos + 1]

\* next(): the object after this.pos++
next(this) == [this EXCEPT !.pos = @ + 1]

-----------------------------------------------------------------------------
(* The earlier parser: assignment, sums, products, calls, if and while      *)

RECURSIVE parseBlockWhileEarlier(_, _)
RECURSIVE parseLineEarlier(_)
RECURSIVE parseIfEarlier(_)
RECURSIVE parseWhileEarlier(_)
RECURSIVE parseLineOrBlockEarlier(_)
RECURSIVE parseAssignEarlier(_)
RECURSIVE parseSumEarlier(_)
RECURSIVE parseSumWhileEarlier(_, _)
RECURSIVE parseProductEarlier(_)
RECURSIVE parseProductWhileEarlier(_, _)
RECURSIVE parseCallEarlier(_)
RECURSIVE parseCallArgsWhileEarlier(_, _, _)
RECURSIVE parseAtomEarlier(_)

acceptEarlier(this, type) == cur(this).type = type

\* type is the array of the types, a single type being put in an array first
expectEarlier(this, type) ==
    IF \E i \in 1..Len(type) : acceptEarlier(this, type[i])
    THEN Returned(TRUE, this)
    ELSE Thrown("Error")

\* the loop of parseBlock, children being the statements pushed so far
parseBlockWhileEarlier(this, children) ==
    IF ~end(this) /\ cur(this).type # "RCBRACE"
    THEN IF cur(this).type = "SEMICOL"
         THEN parseBlockWhileEarlier(next(this), children)
         ELSE Then(parseLineEarlier(this), LAMBDA line :
              parseBlockWhileEarlier(line.this, Append(children, line.value)))
    ELSE Returned(ParseNode("BLOCK", << >>, children), this)

parseBlockEarlier(this) == parseBlockWhileEarlier(this, << >>)

parseExprEarlier(this) == parseAssignEarlier(this)

parseLineEarlier(this) ==
    IF acceptEarlier(this, "IF") THEN parseIfEarlier(this)
    ELSE IF acceptEarlier(this, "WHILE") THEN parseWhileEarlier(this)
    ELSE Then(parseExprEarlier(this), LAMBDA e :
         Then(expectEarlier(e.this, << "SEMICOL" >>), LAMBDA semicol :
         Returned(e.value, next(e.this))))

parseIfEarlier(this) ==
    Then(expectEarlier(this, << "IF" >>), LAMBDA ifToken :
    Then(expectEarlier(next(this), << "LBRACE" >>), LAMBDA lbrace :
    Then(parseExprEarlier(next(next(this))), LAMBDA condition :
    Then(expectEarlier(condition.this, << "RBRACE" >>), LAMBDA rbrace :
    Then(parseLineOrBlockEarlier(next(condition.this)), LAMBDA block :
    IF acceptEarlier(block.this, "ELSE")
    THEN Then(parseLineOrBlockEarlier(next(block.this)), LAMBDA elseBlock :
         Returned(ParseNode("IF", << >>,
                            << condition.value, block.value, elseBlock.value >>),
                  elseBlock.this))
    ELSE Returned(ParseNode("IF", << >>, << condition.value, block.value >>),
                  block.this))))))

parseWhileEarlier(this) ==
    Then(expectEarlier(this, << "WHILE" >>), LAMBDA whileToken :
    Then(expectEarlier(next(this), << "LBRACE" >>), LAMBDA lbrace :
    Then(parseExprEarlier(next(next(this))), LAMBDA condition :
    Then(expectEarlier(condition.this, << "RBRACE" >>), LAMBDA rbrace :
    Then(parseLineOrBlockEarlier(next(condition.this)), LAMBDA block :
    Returned(ParseNode("WHILE", << >>, << condition.value, block.value >>),
             block.this))))))

parseLineOrBlockEarlier(this) ==
    IF acceptEarlier(this, "LCBRACE")
    THEN Then(parseBlockEarlier(next(this)), LAMBDA block :
         Then(expectEarlier(block.this, << "RCBRACE" >>), LAMBDA rcbrace :
         Returned(block.value, next(block.this))))
    ELSE parseLineEarlier(this)

parseAssignEarlier(this) ==
    Then(parseSumEarlier(this), LAMBDA left :
    IF acceptEarlier(left.this, "ASSIGN")
    THEN IF left.value.type # "ID" THEN Thrown("Error")
         ELSE Then(parseAssignEarlier(next(left.this)), LAMBDA right :
              Returned(ParseNode("ASSIGN", left.value.content, << right.value >>),
                       right.this))
    ELSE left)

\* the loop of parseSum, left being the sum parsed so far
parseSumWhileEarlier(this, left) ==
    IF acceptEarlier(this, "ADD") \/ acceptEarlier(this, "SUB")
    THEN Then(parseProductEarlier(next(this)), LAMBDA right :
         parseSumWhileEarlier(right.this,
             ParseNode(IF acceptEarlier(this, "ADD") THEN "ADD" ELSE "SUB", << >>,
                       << left, right.value >>)))
    ELSE Returned(left, this)

parseSumEarlier(this) ==
    Then(parseProductEarlier(this), LAMBDA left :
    parseSumWhileEarlier(left.this, left.value))

\* the loop of parseProduct, left being the product parsed so far
parseProductWhileEarlier(this, left) ==
    IF acceptEarlier(this, "MUL") \/ acceptEarlier(this, "DIV")
    THEN Then(parseCallEarlier(next(this)), LAMBDA right :
         parseProductWhileEarlier(right.this,
             ParseNode(IF acceptEarlier(this, "MUL") THEN "MUL" ELSE "DIV", << >>,
                       << left, right.value >>)))
    ELSE Returned(left, this)

parseProductEarlier(this) ==
    Then(parseCallEarlier(this), LAMBDA left :
    parseProductWhileEarlier(left.this, left.value))

\* the loop of parseCallArgs, args being the arguments pushed so far; no
\* statement of the loop assigns to first
parseCallArgsWhileEarlier(this, args, first) ==
    IF ~acceptEarlier(this, "RBRACE") /\ ~end(this)
    THEN Then(IF ~first THEN expectEarlier(this, << "COMMA" >>) ELSE Returned(TRUE, this),
              LAMBDA comma :
         Then(parseExprEarlier(IF ~first THEN next(this) ELSE this), LAMBDA e :
         parseCallArgsWhileEarlier(e.this, Append(args, e.value), first)))
    ELSE Returned(args, this)

parseCallArgsEarlier(this) == parseCallArgsWhileEarlier(this, << >>, TRUE)

parseCallEarlier(this) ==
    Then(parseAtomEarlier(this), LAMBDA left :
    IF acceptEarlier(left.this, "LBRACE")
    THEN IF left.value.type # "ID" THEN Thrown("Error")
         ELSE Then(parseCallArgsEarlier(next(left.this)), LAMBDA args :
              Then(expectEarlier(args.this, << "RBRACE" >>), LAMBDA rbrace :
              Returned(ParseNode("CALL", left.value.content, args.value),
                       next(args.this))))
    ELSE left)

parseAtomEarlier(this) ==
    IF acceptEarlier(this, "LBRACE")
    THEN Then(parseExprEarlier(next(this)), LAMBDA e :
         Then(expectEarlier(e.this, << "RBRACE" >>), LAMBDA rbrace :
         Returned(e.value, next(e.this))))
    ELSE Then(expectEarlier(this, << "ID", "NUM", "STR" >>), LAMBDA atom :
         Returned(ParseNode(IF cur(this).type = "ID" THEN "ID"
                            ELSE IF cur(this).type = "NUM" THEN "NUM"
                            ELSE "STR",
                            cur(this).content, << >>),
                  next(this)))

parseEarlier(toks) == parseBlockEarlier(Parser(toks))

-----------------------------------------------------------------------------
(* The parser with functions, return, the logical and comparison operators  *)
(* and the compound assignments                                             *)

RECURSIVE accept(_, _)
RECURSIVE acceptFor(_, _, _)
RECURSIVE parseBlockWhile(_, _)
RECURSIVE parseLine(_)
RECURSIVE parseLineOrBlock(_, _)
RECURSIVE parseIf(_)
RECURSIVE parseWhile(_)
RECURSIVE parseFunction(_)
RECURSIVE parseFunctionArgsWhile(_, _, _)
RECURSIVE parseReturn(_)
RECURSIVE parseAssign(_)
RECURSIVE parseOr(_)
RECURSIVE parseAnd(_)
RECURSIVE parseEq(_)
RECURSIVE parseIneq(_)
RECURSIVE parseSum(_)
RECURSIVE parseProduct(_)
RECURSIVE parseUnary(_)
RECURSIVE parseCall(_)
RECURSIVE parseCallArgsWhile(_, _, _)
RECURSIVE parseAtom(_)
RECURSIVE parseBinaryLeft(_, _, _, _)
RECURSIVE parseBinaryLeftFor(_, _, _, _, _, _)
RECURSIVE parseBinaryRight(_, _, _, _)
RECURSIVE parseBinaryRightFor(_, _, _, _, _, _)

\* an argument of type TokenType | TokenType[]
Single(type) == [isArray |-> FALSE, type |-> type, types |-> << >>]
Array(types) == [isArray |-> TRUE, type |-> "", types |-> types]

\* accept puts a single type in an array and calls itself on every type of
\* the array; a call made when the call stack is full throws
accept(this, type) ==
    IF this.stack >= StackLimit THEN Thrown("RangeError")
    ELSE acceptFor([this EXCEPT !.stack = @ + 1],
                   IF ~type.isArray THEN << type.type >> ELSE type.types, 1)

\* the loop of accept over the types, from the i-th on
acceptFor(this, types, i) ==
    IF i > Len(types) THEN Returned(FALSE, this)
    ELSE Then(accept(this, Single(types[i])), LAMBDA accepted :
         IF accepted.value THEN Returned(TRUE, this)
         ELSE acceptFor(this, types, i + 1))

expect(this, type) ==
    Then(accept(this, type), LAMBDA accepted :
    IF accepted.value THEN Returned(TRUE, this) ELSE Thrown("Error"))

\* the loop of parseBlock, children being the statements pushed so far
parseBlockWhile(this, children) ==
    IF ~end(this) /\ cur(this).type # "RCBRACE"
    THEN IF cur(this).type = "SEMICOL"
         THEN parseBlockWhile(next(this), children)
         ELSE Then(parseLine(this), LAMBDA line :
              parseBlockWhile(line.this, Append(children, line.value)))
    ELSE Returned(ParseNode("BLOCK", << >>, children), this)

parseBlock(this) == parseBlockWhile(this, << >>)

parseExpr(this) == parseAssign(this)

parseLine(this) ==
    Then(accept(this, Single("IF")), LAMBDA isIf :
    IF isIf.value THEN parseIf(this) ELSE
    Then(accept(this, Single("WHILE")), LAMBDA isWhile :
    IF isWhile.value THEN parseWhile(this) ELSE
    Then(accept(this, Single("FUNCTION")), LAMBDA isFunction :
    IF isFunction.value THEN parseFunction(this) ELSE
    Then(accept(this, Single("RETURN")), LAMBDA isReturn :
    IF isReturn.value THEN parseReturn(this) ELSE
    Then(parseExpr(this), LAMBDA e :
    Then(expect(e.this, Single("SEMICOL")), LAMBDA semicol :
    Returned(e.value, next(e.this))))))))

parseLineOrBlock(this, forceBraces) ==
    Then(IF forceBraces THEN expect(this, Single("LBRACE")) ELSE Returned(TRUE, this),
         LAMBDA forced :
    Then(accept(this, Single("LCBRACE")), LAMBDA isBlock :
    IF isBlock.value
    THEN Then(parseBlock(next(this)), LAMBDA block :
         Then(expect(block.this, Single("RCBRACE")), LAMBDA rcbrace :
         Returned(block.value, next(block.this))))
    ELSE parseLine(this)))

parseIf(this) ==
    Then(expect(this, Single("IF")), LAMBDA ifToken :
    Then(expect(next(this), Single("LBRACE")), LAMBDA lbrace :
    Then(parseExpr(next(next(this))), LAMBDA condition :
    Then(expect(condition.this, Single("RBRACE")), LAMBDA rbrace :
    Then(parseLineOrBlock(next(condition.this), FALSE), LAMBDA block :
    Then(accept(block.this, Single("ELSE")), LAMBDA isElse :
    IF isElse.value
    THEN Then(parseLineOrBlock(next(block.this), FALSE), LAMBDA elseBlock :
         Returned(ParseNode("IF", << >>,
                            << condition.value, block.value, elseBlock.value >>),
                  elseBlock.this))
    ELSE Returned(ParseNode("IF", << >>, << condition.value, block.value >>),
                  block.this)))))))

parseWhile(this) ==
    Then(expect(this, Single("WHILE")), LAMBDA whileToken :
    Then(expect(next(this), Single("LBRACE")), LAMBDA lbrace :
    Then(parseExpr(next(next(this))), LAMBDA condition :
    Then(expect(condition.this, Single("RBRACE")), LAMBDA rbrace :
    Then(parseLineOrBlock(next(condition.this), FALSE), LAMBDA block :
    Returned(ParseNode("WHILE", << >>, << condition.value, block.value >>),
             block.this))))))

\* the loop of parseFunctionArgs, args being the names pushed so far
parseFunctionArgsWhile(this, args, first) ==
    Then(IF end(this) THEN Returned(TRUE, this) ELSE accept(this, Single("RBRACE")),
         LAMBDA isRbrace :
    IF ~end(this) /\ ~isRbrace.value
    THEN Then(IF ~first THEN expect(this, Single("COMMA")) ELSE Returned(TRUE, this),
              LAMBDA comma :
         Then(expect(IF ~first THEN next(this) ELSE this, Single("ID")), LAMBDA id :
         parseFunctionArgsWhile(next(id.this), Append(args, cur(id.this).content), FALSE)))
    ELSE Returned(args, this))

parseFunctionArgs(this) == parseFunctionArgsWhile(this, << >>, TRUE)

parseFunction(this) ==
    Then(expect(this, Single("FUNCTION")), LAMBDA functionToken :
    Then(expect(next(this), Single("ID")), LAMBDA name :
    Then(expect(next(name.this), Single("LBRACE")), LAMBDA lbrace :
    Then(parseFunctionArgs(next(lbrace.this)), LAMBDA args :
    Then(expect(args.this, Single("RBRACE")), LAMBDA rbrace :
    Then(parseLineOrBlock(next(args.this), TRUE), LAMBDA block :
    Returned(ParseNode("FUNCTION",
                       cur(name.this).content \o << "(" >> \o Join(args.value, ",")
                           \o << ")" >>,
                       << block.value >>),
             block.this)))))))

parseReturn(this) ==
    Then(expect(this, Single("RETURN")), LAMBDA returnToken :
    Then(accept(next(this), Single("SEMICOL")), LAMBDA isSemicol :
    IF ~isSemicol.value
    THEN Then(parseExpr(next(this)), LAMBDA e :
         Returned(ParseNode("RETURN", << >>, << e.value >>), e.this))
    ELSE Returned(ParseNode("RETURN", << >>, << >>), next(this))))

\* the method named subcall, called on the object this
Dispatch(subcall, this) ==
    CASE subcall = "parseOr" -> parseOr(this)
      [] subcall = "parseAnd" -> parseAnd(this)
      [] subcall = "parseEq" -> parseEq(this)
      [] subcall = "parseIneq" -> parseIneq(this)
      [] subcall = "parseSum" -> parseSum(this)
      [] subcall = "parseProduct" -> parseProduct(this)
      [] subcall = "parseUnary" -> parseUnary(this)

\* subcall(): a method that was taken off its object (as in this.parseOr) and
\* is called as a plain function runs with this undefined, whatever the
\* object it was taken off
CallUnbound(subcall, object) == Dispatch(subcall, Undefined)

\* the handle parseAssign gives throws unless the left child is an ID
AssignHandle(node) == node.children[1].type # "ID"

parseAssign(this) ==
    parseBinaryRight(this,
                     << << "ASSIGN", "ASSIGN" >>, << "ASSIGN_ADD", "ASSIGN_ADD" >>,
                        << "ASSIGN_SUB", "ASSIGN_SUB" >>, << "ASSIGN_MUL", "ASSIGN_MUL" >>,
                        << "ASSIGN_DIV", "ASSIGN_DIV" >>, << "ASSIGN_MOD", "ASSIGN_MOD" >> >>,
                     "parseOr", TRUE)

\* a method reads a property of this first of all: of undefined, that throws
parseOr(this) ==
    IF this = Undefined THEN Thrown("TypeError")
    ELSE parseBinaryLeft(this, << << "OR", "OR" >> >>, "parseAnd", FALSE)

parseAnd(this) ==
    IF this = Undefined THEN Thrown("TypeError")
    ELSE parseBinaryLeft(this, << << "AND", "AND" >> >>, "parseEq", FALSE)

parseEq(this) ==
    IF this = Undefined THEN Thrown("TypeError")
    ELSE parseBinaryLeft(this, << << "EQ", "EQ" >>, << "NEQ", "NEQ" >> >>, "parseIneq", FALSE)

parseIneq(this) ==
    IF this = Undefined THEN Thrown("TypeError")
    ELSE parseBinaryLeft(this,
                         << << "LT", "LT" >>, << "LTE", "LTE" >>,
                            << "GT", "GT" >>, << "GTE", "GTE" >> >>,
                         "parseSum", FALSE)

parseSum(this) ==
    IF this = Undefined THEN Thrown("TypeError")
    ELSE parseBinaryLeft(this, << << "ADD", "ADD" >>, << "SUB", "SUB" >> >>,
                         "parseProduct", FALSE)

parseProduct(this) ==
    IF this = Undefined THEN Thrown("TypeError")
    ELSE parseBinaryLeft(this,
                         << << "MUL", "MUL" >>, << "DIV", "DIV" >>, << "MOD", "MOD" >> >>,
                         "parseUnary", FALSE)

parseUnary(this) ==
    IF this = Undefined THEN Thrown("TypeError") ELSE
    Then(accept(this, Single("NOT")), LAMBDA isNot :
    IF isNot.value
    THEN Then(parseUnary(next(this)), LAMBDA e :
         Returned(ParseNode("NOT", << >>, << e.value >>), e.this))
    ELSE
    Then(accept(this, Single("SUB")), LAMBDA isSub :
    IF isSub.value
    THEN Then(parseUnary(next(this)), LAMBDA e :
         Returned(ParseNode("NEG", << >>, << e.value >>), e.this))
    ELSE parseCall(this)))

\* the loop of parseCallArgs, args being the arguments pushed so far; no
\* statement of the loop assigns to first
parseCallArgsWhile(this, args, first) ==
    Then(accept(this, Single("RBRACE")), LAMBDA isRbrace :
    IF ~isRbrace.value /\ ~end(this)
    THEN Then(IF ~first THEN expect(this, Single("COMMA")) ELSE Returned(TRUE, this),
              LAMBDA comma :
         Then(parseExpr(IF ~first THEN next(this) ELSE this), LAMBDA e :
         parseCallArgsWhile(e.this, Append(args, e.value), first)))
    ELSE Returned(args, this))

parseCallArgs(this) == parseCallArgsWhile(this, << >>, TRUE)

parseCall(this) ==
    Then(parseAtom(this), LAMBDA left :
    Then(accept(left.this, Single("LBRACE")), LAMBDA isCall :
    IF isCall.value
    THEN IF left.value.type # "ID" THEN Thrown("Error")
         ELSE Then(parseCallArgs(next(left.this)), LAMBDA args :
              Then(expect(args.this, Single("RBRACE")), LAMBDA rbrace :
              Returned(ParseNode("CALL", left.value.content, args.value),
                       next(args.this))))
    ELSE left))

parseAtom(this) ==
    Then(accept(this, Single("LBRACE")), LAMBDA isLbrace :
    IF isLbrace.value
    THEN Then(parseExpr(next(this)), LAMBDA e :
         Then(expect(e.this, Single("RBRACE")), LAMBDA rbrace :
         Returned(e.value, next(e.this))))
    ELSE
    Then(expect(this, Array(<< "ID", "NUM", "STR", "TRUE", "FALSE" >>)), LAMBDA atom :
    Then(accept(this, Array(<< "TRUE", "FALSE" >>)), LAMBDA isConstant :
    IF isConstant.value
    THEN Then(accept(this, Single("TRUE")), LAMBDA isTrue :
         Returned(ParseNode("NUM", IF isTrue.value THEN << "1" >> ELSE << "0" >>, << >>),
                  next(this)))
    ELSE Returned(ParseNode(IF cur(this).type = "ID" THEN "ID"
                            ELSE IF cur(this).type = "NUM" THEN "NUM"
                            ELSE "STR",
                            cur(this).content, << >>),
                  next(this)))))

parseBinaryLeft(this, nodeMap, subcall, handle) ==
    Then(CallUnbound(subcall, this), LAMBDA left :
    parseBinaryLeftFor(left.this, nodeMap, subcall, handle, left.value, 1))

\* the loops of parseBinaryLeft, at the i-th item of nodeMap: an item that
\* is accepted makes the node, breaks the for loop and has the while loop go
\* round again; when no item is accepted foundOp stays false
parseBinaryLeftFor(this, nodeMap, subcall, handle, left, i) ==
    IF i > Len(nodeMap) THEN Returned(left, this) ELSE
    Then(accept(this, Single(nodeMap[i][1])), LAMBDA isOp :
    IF ~isOp.value THEN parseBinaryLeftFor(this, nodeMap, subcall, handle, left, i + 1) ELSE
    Then(CallUnbound(subcall, next(this)), LAMBDA right :
    IF handle /\ AssignHandle(ParseNode(nodeMap[i][2], << >>, << left, right.value >>))
    THEN Thrown("Error")
    ELSE parseBinaryLeftFor(right.this, nodeMap, subcall, handle,
                            ParseNode(nodeMap[i][2], << >>, << left, right.value >>), 1)))

parseBinaryRight(this, nodeMap, subcall, handle) ==
    Then(CallUnbound(subcall, this), LAMBDA left :
    parseBinaryRightFor(left.this, nodeMap, subcall, handle, left.value, 1))

\* the loop of parseBinaryRight, at the i-th item of nodeMap
parseBinaryRightFor(this, nodeMap, subcall, handle, left, i) ==
    IF i > Len(nodeMap) THEN Returned(left, this) ELSE
    Then(accept(this, Single(nodeMap[i][1])), LAMBDA isOp :
    IF ~isOp.value THEN parseBinaryRightFor(this, nodeMap, subcall, handle, left, i + 1) ELSE
    Then(parseBinaryRight(next(this), nodeMap, subcall, handle), LAMBDA right :
    IF handle /\ AssignHandle(ParseNode(nodeMap[i][2], << >>, << left, right.value >>))
    THEN Thrown("Error")
    ELSE Returned(ParseNode(nodeMap[i][2], << >>, << left, right.value >>), right.this)))

parse(toks) == parseBlock(Parser(toks))

-----------------------------------------------------------------------------
(* Parser.parse applied to token sequences *)

\* the most tokens between the parentheses of a call or of a declaration
MaxItems == 3

\* the sequences of at most n members of S
SeqsUpTo(S, n) == UNION { [1..k -> S] : k \in 0..n }

Punct(type) == Token(type, << >>)
IdToken(name) == Token("ID", << name >>)
NumToken(digit) == Token("NUM", << digit >>)

\* f ( items ) ;
CallInput(items) ==
    << IdToken("f"), Punct("LBRACE") >> \o items \o << Punct("RBRACE"), Punct("SEMICOL") >>

CallItems == { NumToken("4"), NumToken("5"), Punct("COMMA") }

CallInputs == { CallInput(items) : items \in SeqsUpTo(CallItems, MaxItems) }

\* the bodies given to a declaration:  { x; }   { }   x;   (x);
Bodies ==
    { << Punct("LCBRACE"), IdToken("x"), Punct("SEMICOL"), Punct("RCBRACE") >>,
      << Punct("LCBRACE"), Punct("RCBRACE") >>,
      << IdToken("x"), Punct("SEMICOL") >>,
      << Punct("LBRACE"), IdToken("x"), Punct("RBRACE"), Punct("SEMICOL") >> }

\* function f ( items ) body
FunctionInput(items, body) ==
    << Punct("FUNCTION"), IdToken("f"), Punct("LBRACE") >> \o items
        \o << Punct("RBRACE") >> \o body

FunctionItems == { IdToken("a"), IdToken("b"), Punct("COMMA") }

FunctionInputs ==
    { FunctionInput(items, body) : items \in SeqsUpTo(FunctionItems, MaxItems), body \in Bodies }

Optional(present, toks) == IF present THEN toks ELSE << >>

\* return [1] [;] [x ;]
ReturnInput(value, semicol, more) ==
    << Punct("RETURN") >> \o Optional(value, << NumToken("1") >>)
        \o Optional(semicol, << Punct("SEMICOL") >>)
        \o Optional(more, << IdToken("x"), Punct("SEMICOL") >>)

\* if ( c ) return 1 [;] else return 2 [;]
IfReturnInput(semicol, last) ==
    << Punct("IF"), Punct("LBRACE"), IdToken("c"), Punct("RBRACE"),
       Punct("RETURN"), NumToken("1") >> \o Optional(semicol, << Punct("SEMICOL") >>)
        \o << Punct("ELSE"), Punct("RETURN"), NumToken("2") >>
        \o Optional(last, << Punct("SEMICOL") >>)

ReturnInputs ==
    { ReturnInput(value, semicol, more) : value \in BOOLEAN, semicol \in BOOLEAN, more \in BOOLEAN }
        \cup { IfReturnInput(semicol, last) : semicol \in BOOLEAN, last \in BOOLEAN }

\* the binary operators given, one or two of each level of parseAssign ..
\* parseProduct
BinaryOperators == { "ASSIGN", "OR", "AND", "EQ", "LT", "ADD", "SUB", "MUL" }

\* a op1 b op2 c ;
BinaryInput(op1, op2) ==
    << IdToken("a"), Punct(op1), IdToken("b"), Punct(op2), IdToken("c"), Punct("SEMICOL") >>

BinaryInputs == { BinaryInput(op1, op2) : op1 \in BinaryOperators, op2 \in BinaryOperators }

\* programs with a closing brace that no opening brace matches
StrayInputs ==
    { << Punct("RCBRACE") >>,
      << Punct("SEMICOL"), Punct("RCBRACE"), IdToken("y"), Punct("SEMICOL") >>,
      << IdToken("x"), Punct("SEMICOL"), Punct("RCBRACE"), IdToken("y"), Punct("SEMICOL") >> }

ParseInputs == CallInputs \cup FunctionInputs \cup ReturnInputs \cup BinaryInputs \cup StrayInputs

\* the tokens, the positions and the arguments accept is called with
AcceptTokens == << IdToken("x"), Punct("SEMICOL") >>

AcceptTypes ==
    { Single("ID"), Single("SEMICOL"), Single("ERR"), Array(<< >>), Array(<< "NUM" >>),
      Array(<< "ID", "SEMICOL" >>), Array(<< "NUM", "SEMICOL" >>) }

\* what a call of parse came to: the tree it returned and the position it
\* left, or the error it threw
Outcome(by, r) ==
    [by |-> by, err |-> r.err, value |-> r.value,
     pos |-> IF Threw(r) THEN 0 ELSE r.this.pos]

notParser == << frames, returnedValue, handles, self, mode, ctrl, val, kont, outcome,
                errNode, script, calls, execCount, globalsAtEnd, phase,
                lexer, objects, stored, given >>

\* new Parser().parse(toks)
Parse(toks) ==
    /\ mode = "idle"
    /\ tokens' = toks
    /\ parsed' = Outcome("Parser", parse(toks))
    /\ UNCHANGED notParser

\* new Parser().parse(toks), of the earlier parser
ParseEarlier(toks) ==
    /\ mode = "idle"
    /\ tokens' = toks
    /\ parsed' = Outcome("ParserEarlier", parseEarlier(toks))
    /\ UNCHANGED notParser

\* accept(type) on a Parser whose position is pos
Accept(toks, pos, type) ==
    /\ mode = "idle"
    /\ tokens' = toks
    /\ parsed' = LET r == accept([Parser(toks) EXCEPT !.pos = pos], type) IN
                  [by |-> "accept", err |-> r.err, pos |-> Outcome("accept", r).pos,
                   value |-> [returned |-> r.value, from |-> pos, type |-> type]]
    /\ UNCHANGED notParser

NextParse ==
    \/ \E toks \in ParseInputs : Parse(toks)
    \/ \E toks \in ParseInputs : ParseEarlier(toks)
    \/ \E pos \in 0..Len(AcceptTokens), type \in AcceptTypes : Accept(AcceptTokens, pos, type)

SpecParse == Init /\ [][NextParse]_vars

-----------------------------------------------------------------------------
(* The lexer.  A Lexer object is the record of its fields text, pos and    *)
(* tokens; at tells where read is: in its loop ("read"), in the loop of    *)
(* readMultilineComment ("comment", with its local last), returned or      *)
(* thrown.  The inputs of the model spell no property name of              *)
(* Object.prototype, which the two tables would also answer for.           *)

keywords ==
    (<< "i", "f" >> :> "IF") @@ (<< "e", "l", "s", "e" >> :> "ELSE")
    @@ (<< "w", "h", "i", "l", "e" >> :> "WHILE")
    @@ (<< "f", "u", "n", "c", "t", "i", "o", "n" >> :> "FUNCTION")
    @@ (<< "t", "r", "u", "e" >> :> "TRUE") @@ (<< "f", "a", "l", "s", "e" >> :> "FALSE")
    @@ (<< "r", "e", "t", "u", "r", "n" >> :> "RETURN")

specialTokens ==
    (<< "=" >> :> "ASSIGN") @@ (<< "=", "=" >> :> "EQ")
    @@ (<< ";" >> :> "SEMICOL")
    @@ (<< "{" >> :> "LCBRACE")
    @@ (<< "}" >> :> "RCBRACE")
    @@ (<< "(" >> :> "LBRACE")
    @@ (<< ")" >> :> "RBRACE")
    @@ (<< "+" >> :> "ADD") @@ (<< "+", "=" >> :> "ASSIGN_ADD")
    @@ (<< "-" >> :> "SUB") @@ (<< "-", "=" >> :> "ASSIGN_SUB")
    @@ (<< "*" >> :> "MUL") @@ (<< "*", "=" >> :> "ASSIGN_MUL")
    @@ (<< "/" >> :> "DIV") @@ (<< "/", "=" >> :> "ASSIGN_DIV")
    @@ (<< "%" >> :> "MOD") @@ (<< "%", "=" >> :> "ASSIGN_MOD")
    @@ (<< "&" >> :> "ERR") @@ (<< "&", "&" >> :> "AND")
    @@ (<< "|" >> :> "ERR") @@ (<< "|", "|" >> :> "OR")
    @@ (<< "!" >> :> "NOT") @@ (<< "!", "=" >> :> "NEQ")
    @@ (<< "<" >> :> "LT") @@ (<< "<", "=" >> :> "LTE")
    @@ (<< ">" >> :> "GT") @@ (<< ">", "=" >> :> "GTE")
    @@ (<< "," >> :> "COMMA")
    @@ (<< "/", "/" >> :> "ERR") @@ (<< "/", "*" >> :> "ERR")

LineCommentStart == << "/", "/" >>
MultilineCommentStart == << "/", "*" >>

\* Lexer.end
lexEnd(this) == this.pos >= Len(this.text)

\* Lexer.cur
lexCur(this) == IF lexEnd(this) THEN "" ELSE this.text[this.pos + 1]

\* Lexer.next: the object after this.pos += 1
lexNext(this) == [this EXCEPT !.pos = @ + 1]

\* this.tokens.push(token)
lexPush(this, token) == [this EXCEPT !.tokens = Append(@, token)]

\* throw Error(...)
lexThrow(this) == [this EXCEPT !.at = "threw"]

Letters ==
    { "a", "b", "c", "d", "e", "f", "g", "h", "i", "j", "k", "l", "m",
      "n", "o", "p", "q", "r", "s", "t", "u", "v", "w", "x", "y", "z",
      "A", "B", "C", "D", "E", "F", "G", "H", "I", "J", "K", "L", "M",
      "N", "O", "P", "Q", "R", "S", "T", "U", "V", "W", "X", "Y", "Z" }

\* the empty string cur returns at the end is in no range
isAlpha(char) == char \in Letters

isNum(char) == \E d \in 1..10 : Digits[d] = char

isIDChar(char, start) == isAlpha(char) \/ char = "_" \/ (~start /\ isNum(char))

isSpace(char) == char \in { " ", "\t", "\r", "\n" }

RECURSIVE readIDWhile(_, _)
readIDWhile(this, content) ==
    IF isIDChar(lexCur(this), FALSE)
    THEN readIDWhile(lexNext(this), Append(content, lexCur(this)))
    ELSE IF content \in DOMAIN keywords
    THEN lexPush(this, Token(keywords[content], << >>))
    ELSE lexPush(this, Token("ID", content))

readID(this) == readIDWhile(this, << >>)

RECURSIVE readNumWhile(_, _, _)
readNumWhile(this, foundDot, content) ==
    IF ~lexEnd(this) /\ (isNum(lexCur(this)) \/ (~foundDot /\ lexCur(this) = "."))
    THEN readNumWhile(lexNext(this), foundDot \/ lexCur(this) = ".",
                      Append(content, lexCur(this)))
    ELSE lexPush(this, Token("NUM", content))

readNum(this) == readNumWhile(this, FALSE, << >>)

RECURSIVE readLineCommentWhile(_)
readLineCommentWhile(this) ==
    IF ~lexEnd(this) /\ lexCur(this) # "\n"
    THEN readLineCommentWhile(lexNext(this))
    ELSE lexNext(this)

readLineComment(this) == readLineCommentWhile(this)

\* readMultilineComment is entered: let last = ""
readMultilineComment(this) == [this EXCEPT !.at = "comment", !.last = ""]

\* one test of the loop of readMultilineComment, and its body or the next()
\* that follows the loop
readMultilineCommentWhile(this) ==
    IF this.last # "*" \/ lexCur(this) # "/"
    THEN [lexNext(this) EXCEPT !.last = lexCur(this)]
    ELSE [lexNext(this) EXCEPT !.at = "read"]

escapeChar(char) ==
    IF char = "n" THEN "\n" ELSE IF char = "t" THEN "\t" ELSE char

RECURSIVE readStringWhile(_, _, _)
readStringWhile(this, delim, content) ==
    IF ~lexEnd(this) /\ lexCur(this) # delim
    THEN IF lexCur(this) = "\\"
         THEN IF ~lexEnd(lexNext(this))
              THEN readStringWhile(lexNext(lexNext(this)), delim,
                                   Append(content, escapeChar(lexCur(lexNext(this)))))
              ELSE readStringWhile(lexNext(lexNext(this)), delim, content)
         ELSE readStringWhile(lexNext(this), delim, Append(content, lexCur(this)))
    ELSE IF lexEnd(this)
    THEN lexThrow(this)
    ELSE lexPush(this, Token("STR", content))

readString(this) == readStringWhile(lexNext(this), lexCur(this), << >>)

\* a readSpecialToken that takes one character and no more
readSpecialTokenWhileOne(this, content) ==
    IF ~lexEnd(this) /\ << lexCur(this) >> \in DOMAIN specialTokens
    THEN [this |-> lexNext(this), content |-> << lexCur(this) >>]
    ELSE [this |-> this, content |-> content]

\* the loop of readSpecialToken: the object and the content it ends with
RECURSIVE readSpecialTokenWhile(_, _)
readSpecialTokenWhile(this, content) ==
    IF ~lexEnd(this) /\ Append(content, lexCur(this)) \in DOMAIN specialTokens
    THEN readSpecialTokenWhile(lexNext(this), Append(content, lexCur(this)))
    ELSE [this |-> this, content |-> content]

\* readSpecialToken as it was before comments: whatever the table says is pushed
readSpecialTokenEarlier(this) ==
    LET loop == readSpecialTokenWhile(this, << >>) IN
    IF loop.content = << >> THEN lexThrow(loop.this)
    ELSE lexPush(loop.this, Token(specialTokens[loop.content], << >>))

readSpecialToken(this) ==
    LET loop == readSpecialTokenWhile(this, << >>) IN
    IF loop.content = << >> THEN lexThrow(loop.this)
    ELSE IF loop.content = LineCommentStart THEN readLineComment(loop.this)
    ELSE IF loop.content = MultilineCommentStart THEN readMultilineComment(loop.this)
    ELSE IF specialTokens[loop.content] = "ERR" THEN lexThrow(loop.this)
    ELSE lexPush(loop.this, Token(specialTokens[loop.content], << >>))

\* one test of the loop of read, and its body or the return
readWhile(this) ==
    IF lexEnd(this) THEN [this EXCEPT !.at = "returned"]
    ELSE IF isIDChar(lexCur(this), TRUE) THEN readID(this)
    ELSE IF isSpace(lexCur(this)) THEN lexNext(this)
    ELSE IF isNum(lexCur(this)) THEN readNum(this)
    ELSE IF lexCur(this) = "'" \/ lexCur(this) = "\"" THEN readString(this)
    ELSE readSpecialToken(this)

\* read is called: this.text = text, this.pos = 0
read(this, text) == [this EXCEPT !.text = text, !.pos = 0, !.at = "read"]

-----------------------------------------------------------------------------
(* Lexing: one call of read on a new Lexer, for the texts made of at most  *)
(* MaxPieces pieces                                                         *)

MaxPieces == 3

\* how far past the end of the text the position is counted
MaxPast == 2

Pieces ==
    { << "a" >>, << "1" >>, << " " >>, << "\n" >>, << "/" >>, << "*" >>, << "=" >>,
      << "<" >>, << "&" >>, << "\"" >>, << "/", "/" >>, << "/", "*" >>, << "*", "/" >> }

RECURSIVE Concat(_)
Concat(pieces) == IF Len(pieces) = 0 THEN << >> ELSE Head(pieces) \o Concat(Tail(pieces))

Texts == { Concat(pieces) : pieces \in SeqsUpTo(Pieces, MaxPieces) }

notLexer == << frames, returnedValue, handles, self, mode, ctrl, val, kont, outcome,
               errNode, script, calls, execCount, globalsAtEnd, phase,
               tokens, parsed, objects, stored, given >>

\* new Lexer().read(text) is called
LexerRead(text) ==
    /\ lexer.at = "new"
    /\ lexer' = read(lexer, text)
    /\ UNCHANGED notLexer

\* the loop of read
ReadWhile ==
    /\ lexer.at = "read"
    /\ lexer' = readWhile(lexer)
    /\ UNCHANGED notLexer

\* the loop of readMultilineComment.  The positions past the end of the
\* text are alike to the code (cur returns "" at each of them): they are
\* counted up to MaxPast past the end, and then from the first of them again
ReadMultilineCommentWhile ==
    /\ lexer.at = "comment"
    /\ lexer' = LET step == readMultilineCommentWhile(lexer) IN
                IF step.pos > Len(lexer.text) + MaxPast
                THEN [step EXCEPT !.pos = Len(lexer.text) + 1]
                ELSE step
    /\ UNCHANGED notLexer

NextLex ==
    \/ lexer.at = "new" /\ \E text \in Texts : LexerRead(text)
    \/ ReadWhile
    \/ ReadMultilineCommentWhile

SpecLex == Init /\ [][NextLex]_vars

\* read is a sequential program: it goes on while it can
SpecLexFair == SpecLex /\ WF_vars(NextLex)

-----------------------------------------------------------------------------
(* Properties *)

\* the frame on top of the call stack of the executing instance
TopFrame == frames[self][Len(frames[self])]

\* the number of user-function bodies being executed
Depth == Cardinality({ j \in 1..Len(kont) : kont[j].k = "callBody" })

\* the number of parameters a FUNCTION node was declared with, read off its
\* signature name(a,b,...)
OpenAt(content) ==
    CHOOSE i \in 1..Len(content) : content[i] = "(" /\ \A j \in 1..(i - 1) : content[j] # "("

ParamText(content) == SubSeq(content, OpenAt(content) + 1, Len(content) - 1)

DeclaredArity(content) ==
    IF ParamText(content) = << >> THEN 0
    ELSE Cardinality({ i \in 1..Len(ParamText(content)) : ParamText(content)[i] = "," }) + 1

\* executeNode is entered on a call of a user function declared with n parameters
EnteringCallOf(n) ==
    /\ Entering({"CALL"})
    /\ ~DictHas(handles[self], ctrl.content)
    /\ \E j \in 1..Len(frames[self]) : DictHas(frames[self][j], ctrl.content)
    /\ LET top == CHOOSE j \in 1..Len(frames[self]) :
                     /\ DictHas(frames[self][j], ctrl.content)
                     /\ \A m \in (j + 1)..Len(frames[self]) : ~DictHas(frames[self][m], ctrl.content)
           func == frames[self][top][ctrl.content]
       IN  IsParseNode(func) /\ DeclaredArity(func.content) = n

\* the execute call has ended with an error
Failed == mode = "idle" /\ outcome \notin {"none", "running", "ok"}

\* C1: a return executed inside the body of a WHILE loop stops the loop: the
\* body of a loop is never begun while a returned value is pending, so the
\* call that encloses the loop goes on to complete
C1_ReturnUnwindsWhile ==
    ~(/\ mode = "eval"
      /\ Len(kont) > 0
      /\ Top.k = "whileBody"
      /\ returnedValue[self] # Undefined)

\* C2: an assignment writes only the topmost frame: no step changes a binding
\* of a frame below the top one, and when
\* function f(x) { x = x + 1; y = 9; return x; } y = 5; r = f(y); has run,
\* y is still NUM 5 in the frame of the caller and r is NUM 6
C2_AssignmentIsLocal ==
    /\ [][\A i \in Instances : \A j \in 1..Len(frames[i]) :
              (j < Len(frames[i]) /\ j <= Len(frames'[i])) => frames'[i][j] = frames[i][j]]_vars
    /\ []((mode = "idle" /\ script = "ByValue" /\ outcome = "arity") =>
              /\ DictHas(TopFrame, << "y" >>)
              /\ TopFrame[<< "y" >>] = ReturnValue("NUM", << "5" >>)
              /\ DictHas(TopFrame, << "r" >>)
              /\ TopFrame[<< "r" >>] = ReturnValue("NUM", << "6" >>))

\* inside f, after x = x + 1 and y = 9: the frame of f holds x = 6 and y = 9,
\* the frame below holds y = 5
C2_Witness ==
    /\ script = "ByValue"
    /\ Len(frames[self]) >= 2
    /\ DictHas(TopFrame, << "y" >>)
    /\ TopFrame[<< "y" >>] = ReturnValue("NUM", << "9" >>)
    /\ TopFrame[<< "x" >>] = ReturnValue("NUM", << "6" >>)
    /\ DictHas(frames[self][Len(frames[self]) - 1], << "y" >>)
    /\ frames[self][Len(frames[self]) - 1][<< "y" >>] = ReturnValue("NUM", << "5" >>)

\* a name is read in the body of a function that was called from the body of
\* another function
NestedRead ==
    /\ Entering({"ID"})
    /\ Depth >= 2
    /\ Len(frames[self]) >= 3

\* C3 as stated: in a function called from another function a name read
\* resolves to the function's own frame or else to frame 0, and is undefined
\* when neither holds the name
C3_TwoVisibleScopes ==
    [][NestedRead =>
          LET name == ctrl.content
              global == frames[self][1]
          IN  IF DictHas(TopFrame, name)
              THEN IsReturnValue(TopFrame[name]) => (mode' = "ret" /\ val' = TopFrame[name])
              ELSE IF DictHas(global, name)
              THEN IsReturnValue(global[name]) => (mode' = "ret" /\ val' = global[name])
              ELSE Failed' /\ outcome' = "undefined"]_vars

\* the frames that hold a name
Holders(fs, name) == { j \in 1..Len(fs) : DictHas(fs[j], name) }

Highest(S) == CHOOSE m \in S : \A n \in S : n <= m

\* C3: a name read resolves to the binding of the topmost frame of the whole
\* call stack that holds the name, the frames of the callers included; it is
\* undefined only when no frame holds the name
C3_TopmostHolder ==
    [][Entering({"ID"}) =>
          LET name == ctrl.content
              hs == Holders(frames[self], name)
          IN  IF hs = {}
              THEN Failed' /\ outcome' = "undefined" /\ frames' = frames
              ELSE LET found == frames[self][Highest(hs)][name] IN
                   IF IsReturnValue(found)
                   THEN mode' = "ret" /\ val' = found /\ frames' = frames
                   ELSE Failed' /\ outcome' = "functionvalue"]_vars

\* d, called from k(7), has read x: the value is the 7 of the frame of k, and
\* neither the frame of d nor frame 0 holds x
C3_Witness ==
    /\ script = "Dynamic"
    /\ mode = "ret"
    /\ Depth = 2
    /\ Len(frames[self]) = 3
    /\ Top.k = "return"
    /\ val = ReturnValue("NUM", << "7" >>)
    /\ ~DictHas(frames[self][3], << "x" >>)
    /\ ~DictHas(frames[self][1], << "x" >>)
    /\ DictHas(frames[self][2], << "x" >>)

\* C4 as stated: a call of a function declared with no parameters goes on to
\* the body when it has no arguments and raises the arity error when it has
\* arguments
C4_ZeroParameterCall ==
    [][EnteringCallOf(0) =>
          IF Len(ctrl.children) = 0
          THEN mode' = "eval" /\ ctrl'.type = "BLOCK" /\ outcome' = outcome
          ELSE Failed' /\ outcome' = "arity"]_vars

\* C5: a call of a function declared with one parameter raises the arity
\* error when it has two arguments and changes no frame; with one argument it
\* evaluates the argument and then begins the body in a new frame that binds
\* the parameter to the value of the argument
C5_OneParameterCall ==
    /\ [][EnteringCallOf(1) =>
             /\ Len(ctrl.children) = 2 =>
                    (Failed' /\ outcome' = "arity" /\ errNode' = ctrl /\ frames' = frames)
             /\ Len(ctrl.children) = 1 =>
                    (mode' = "eval" /\ ctrl' = ctrl.children[1] /\ outcome' = outcome
                     /\ Top'.k = "callArgs")]_vars
    /\ [][(/\ Returning("callArgs")
           /\ DeclaredArity(Top.func.content) = 1
           /\ Len(Top.node.children) = 1
           /\ IsReturnValue(val)) =>
             /\ mode' = "eval"
             /\ ctrl' = Top.func.children[1]
             /\ outcome' = outcome
             /\ Len(frames'[self]) = Len(frames[self]) + 1
             /\ DOMAIN frames'[self][Len(frames'[self])] = { ParamText(Top.func.content) }
             /\ frames'[self][Len(frames'[self])][ParamText(Top.func.content)] = val]_vars

\* f(y) has returned 6 into r and f(1, 2) has raised the arity error
C5_Witness ==
    /\ Failed
    /\ script = "ByValue"
    /\ outcome = "arity"
    /\ Len(errNode.children) = 2
    /\ DictHas(TopFrame, << "r" >>)
    /\ TopFrame[<< "r" >>] = ReturnValue("NUM", << "6" >>)

\* C6 as stated: when every handle of an instance was registered before its
\* first execute, no frame of its call stack holds a binding under the name
\* of a registered handle
C6_HandleNamesReserved ==
    \A i \in Instances :
        phase[i] # "late" =>
            \A j \in 1..Len(frames[i]) : DOMAIN frames[i][j] \cap DOMAIN handles[i] = {}

\* an assignment, plain or compound, to the name of a handle is about to
\* store its value
StoreToHandle ==
    \/ Returning("assign") /\ DictHas(handles[self], Top.name)
    \/ Returning("compound") /\ DictHas(handles[self], Top.node.children[1].content)

\* C7 as stated: an assignment, plain or compound, whose target is the name of
\* a handle changes no frame, and it ends in an error instead of storing
C7_AssignToHandleIsFatal ==
    [][/\ (Entering({"ASSIGN"} \cup CompoundTypes)
           /\ DictHas(handles[self], ctrl.children[1].content)) => frames' = frames
       /\ StoreToHandle => (Failed' /\ frames' = frames)]_vars

\* C8: executing the declaration of a function under the name of a registered
\* handle ends the execute call with the reserved-name error and changes no
\* frame and no entry of the handle table
C8_DeclareHandleNameIsFatal ==
    [][(Entering({"FUNCTION"}) /\ DictHas(handles[self], FunctionName(ctrl.content))) =>
          /\ Failed'
          /\ outcome' = "reserved"
          /\ errNode' = ctrl
          /\ frames' = frames
          /\ handles' = handles]_vars

\* function h(a) { ... } was refused because h is a handle: no frame holds h
C8_Witness ==
    /\ Failed
    /\ script = "HandleDecl"
    /\ outcome = "reserved"
    /\ errNode.type = "FUNCTION"
    /\ DictHas(handles[self], << "h" >>)
    /\ \A j \in 1..Len(frames[self]) : ~DictHas(frames[self][j], << "h" >>)

\* C9: a call of a handle name pushes no frame and starts no user function,
\* whatever the call stack binds under the name; the callback is invoked once,
\* when the last argument has been evaluated, with the values in the order of
\* the arguments, and its result is the value of the call: after
\* when execute returns from p(a = 1, a + 1); r = h(2); with the handles p
\* and h, the callbacks were given (1, 2) and (2) and r is the VOID that h
\* returned
C9_HandlesNotShadowed ==
    /\ [][(Entering({"CALL"}) /\ DictHas(handles[self], ctrl.content)) =>
             /\ frames' = frames
             /\ IF Len(ctrl.children) = 0
                THEN /\ calls' = Append(calls, [name |-> ctrl.content, args |-> << >>])
                     /\ mode' = "ret"
                ELSE /\ calls' = calls
                     /\ ctrl' = ctrl.children[1]
                     /\ Top'.k = "handleArgs"]_vars
    /\ [][Returning("handleArgs") =>
             /\ frames' = frames
             /\ IF Len(Top.values) + 1 = Len(Top.node.children)
                THEN /\ calls' = Append(calls, [name |-> Top.node.content,
                                                args |-> Append(Top.values, val)])
                     /\ mode' = "ret"
                     /\ kont' = Pop
                ELSE /\ calls' = calls
                     /\ ctrl' = Top.node.children[Len(Top.values) + 2]]_vars
    /\ []((/\ Returning("execute") /\ script = "HandleCall"
           /\ DictHas(handles[self], << "p" >>) /\ DictHas(handles[self], << "h" >>)) =>
             /\ calls = << [name |-> << "p" >>,
                            args |-> << ReturnValue("NUM", << "1" >>),
                                        ReturnValue("NUM", << "2" >>) >>],
                           [name |-> << "h" >>,
                            args |-> << ReturnValue("NUM", << "2" >>) >>] >>
             /\ TopFrame[<< "r" >>] = Void)

\* h was declared as a function before the handle h was registered; the later
\* call h(2) went to the handle
C9_Witness ==
    /\ mode = "idle"
    /\ script = "HandleCall"
    /\ outcome = "ok"
    /\ Len(calls) = 2
    /\ DictHas(frames[self][1], << "h" >>)
    /\ IsParseNode(frames[self][1][<< "h" >>])
    /\ DictHas(handles[self], << "h" >>)
    /\ TopFrame[<< "r" >>] = Void

\* C10: between execute calls no frame changes, so an execute call begins with
\* the bindings of frame 0 that the previous one on the instance ended with;
\* no step changes a frame of an instance other than the executing one; and
\* y = x + 2 in a later execute reads the x of an earlier one
C10_GlobalsPersist ==
    /\ [](mode = "idle" => \A i \in Instances : frames[i][1] = globalsAtEnd[i])
    /\ [][mode = "idle" => frames' = frames]_vars
    /\ [][\A i \in Instances : i # self' => frames'[i] = frames[i]]_vars
    /\ []((mode = "idle" /\ script = "Dynamic" /\ outcome = "ok") =>
             /\ CallStackDefined(frames[self], << "x" >>)
             /\ CallStackDefined(frames[self], << "y" >>)
             /\ CallStackGet(frames[self], << "y" >>) =
                    ReturnValue("NUM",
                        String(NumAdd(Number(CallStackGet(frames[self], << "x" >>).content),
                                      Fin(2)))))

\* x = 5; and then y = x + 2; in two execute calls of one instance: y is 7,
\* and the other instance holds nothing
C10_Witness ==
    /\ mode = "idle"
    /\ script = "Dynamic"
    /\ outcome = "ok"
    /\ execCount = 2
    /\ DictHas(frames[self][1], << "x" >>)
    /\ frames[self][1][<< "x" >>] = ReturnValue("NUM", << "5" >>)
    /\ frames[self][1][<< "y" >>] = ReturnValue("NUM", << "7" >>)
    /\ \A i \in Instances \ { self } : frames[i] = CallStackNew

\* execute has just called executeNode on the root of its program
ExecuteBegins == mode = "eval" /\ kont = << [k |-> "execute"] >>

\* C11 as stated: after a return outside any function call nothing more of
\* the program is evaluated (no frame changes and no handle is invoked while
\* the value is pending), and no execute call begins with a return value
\* pending
C11_TopLevelReturnEndsProgramOnly ==
    /\ [][(mode # "idle" /\ Depth = 0 /\ returnedValue[self] # Undefined) =>
             (frames' = frames /\ calls' = calls)]_vars
    /\ [](ExecuteBegins => returnedValue[self] = Undefined)

\* C12 as stated: an execute call that raises an error commits nothing: frame
\* 0 holds the bindings it held when the call began, and the first call made
\* on an evaluator leaves its call stack and its pending return value as the
\* constructor made them
C12_FailedExecuteCommitsNothing ==
    /\ [][(mode # "idle" /\ Failed') => frames'[self][1] = globalsAtEnd[self]]_vars
    /\ []((Failed /\ execCount = 1) =>
             (frames[self] = CallStackNew /\ returnedValue[self] = Undefined))

\* a value that an AND/OR takes for false: a NUM whose number is 0
Falsy(value) == value.type = "NUM" /\ Number(value.content) = Fin(0)

One == ReturnValue("NUM", << "1" >>)
Zero == ReturnValue("NUM", << "0" >>)

\* C13: when the left operand of && is falsy, or that of || is truthy, the
\* node yields NUM 0, or NUM 1, at once: the right operand is not evaluated,
\* no frame changes, no handle is invoked and no error is raised; otherwise
\* the right operand is evaluated next and the node yields NUM 1 or NUM 0 by
\* its truthiness.  When execute returns from the program ShortCircuit, c, d,
\* e, g and b are 0, 1, 1, 0 and 0 and no handle was invoked
C13_ShortCircuit ==
    /\ [][Returning("andOr") =>
             IF Top.node.type = "AND" /\ Falsy(val)
             THEN mode' = "ret" /\ val' = Zero /\ kont' = Pop
                  /\ frames' = frames /\ calls' = calls /\ outcome' = outcome
             ELSE IF Top.node.type = "OR" /\ ~Falsy(val)
             THEN mode' = "ret" /\ val' = One /\ kont' = Pop
                  /\ frames' = frames /\ calls' = calls /\ outcome' = outcome
             ELSE mode' = "eval" /\ ctrl' = Top.node.children[2]]_vars
    /\ [][Returning("andOrRight") =>
             mode' = "ret" /\ kont' = Pop /\ val' = (IF Falsy(val) THEN Zero ELSE One)]_vars
    /\ []((Returning("execute") /\ script = "ShortCircuit"
           /\ returnedValue[self] = Undefined) =>
             /\ TopFrame[<< "c" >>] = Zero
             /\ TopFrame[<< "d" >>] = One
             /\ TopFrame[<< "e" >>] = One
             /\ TopFrame[<< "g" >>] = Zero
             /\ TopFrame[<< "b" >>] = Zero
             /\ calls = << >>)

\* ShortCircuit has run with the handle p registered: p was not invoked, f
\* is a function that was not called, and u is bound in no frame
C13_Witness ==
    /\ mode = "idle"
    /\ outcome = "ok"
    /\ script = "ShortCircuit"
    /\ returnedValue[self] = Undefined
    /\ DictHas(handles[self], << "p" >>)
    /\ calls = << >>
    /\ DictHas(TopFrame, << "f" >>)
    /\ DictHas(TopFrame, << "d" >>)
    /\ TopFrame[<< "d" >>] = One
    /\ TopFrame[<< "c" >>] = Zero
    /\ \A j \in 1..Len(frames[self]) : ~DictHas(frames[self][j], << "u" >>)

\* the n-th Fibonacci number, with the first two both 1
RECURSIVE FibNumber(_)
FibNumber(n) == IF n <= 2 THEN 1 ELSE FibNumber(n - 1) + FibNumber(n - 2)

\* the natural number a NUM value holds
NatOf(value) == Number(value.content)[2]

\* C14: the program never fails; every call of fib returns the Fibonacci
\* number of its parameter x, which no inner call has changed; every return
\* from a call yields the pending value and unsets it, and changes no frame
\* below the one it pops; and when execute returns, r is the n-th Fibonacci
\* number for the n of the program, 1 <= n <= MaxFib
C14_FibReturnsFibonacci ==
    /\ [](script = "Fib" => ~Failed)
    /\ [](Returning("callBody") =>
             /\ returnedValue[self] # Undefined
             /\ returnedValue[self] =
                    ReturnValue("NUM", NatText(FibNumber(NatOf(TopFrame[<< "x" >>])))))
    /\ [][Returning("callBody") =>
             /\ val' = returnedValue[self]
             /\ returnedValue'[self] = Undefined
             /\ frames'[self] = SubSeq(frames[self], 1, Len(frames[self]) - 1)]_vars
    /\ [][\A j \in 1..Len(frames[self]) :
             (j < Len(frames[self]) /\ j <= Len(frames'[self])) =>
                 frames'[self][j] = frames[self][j]]_vars
    /\ [](Returning("execute") =>
             /\ NatOf(TopFrame[<< "n" >>]) \in 1..MaxFib
             /\ TopFrame[<< "r" >>] =
                    ReturnValue("NUM", NatText(FibNumber(NatOf(TopFrame[<< "n" >>])))))

\* fib(9) has been evaluated to 34
C14_Witness ==
    /\ mode = "idle"
    /\ outcome = "ok"
    /\ script = "Fib"
    /\ DictHas(TopFrame, << "r" >>)
    /\ TopFrame[<< "n" >>] = ReturnValue("NUM", << "9" >>)
    /\ TopFrame[<< "r" >>] = ReturnValue("NUM", << "3", "4" >>)

\* the binary operator of an arithmetic or compound assignment node type
OperatorOf(type) ==
    CASE type \in {"ADD", "ASSIGN_ADD"} -> "+"
      [] type \in {"SUB", "ASSIGN_SUB"} -> "-"
      [] type \in {"MUL", "ASSIGN_MUL"} -> "*"
      [] type \in {"DIV", "ASSIGN_DIV"} -> "/"
      [] type \in {"MOD", "ASSIGN_MOD"} -> "%"

\* the number x op y
Arith(op, x, y) ==
    CASE op = "+" -> NumAdd(x, y)
      [] op = "-" -> NumSub(x, y)
      [] op = "*" -> NumMul(x, y)
      [] op = "/" -> NumDiv(x, y)
      [] op = "%" -> NumMod(x, y)

\* what C16 says the expression left op right yields; "error" when it raises
Yield(op, left, right) ==
    IF op = "+" /\ left.type = "STR" /\ right.type = "STR"
    THEN ReturnValue("STR", left.content \o right.content)
    ELSE IF left.type = "NUM" /\ right.type = "NUM"
    THEN ReturnValue("NUM", String(Arith(op, Number(left.content), Number(right.content))))
    ELSE "error"

\* C15 as stated: a compound assignment x op= e whose operands are evaluated
\* stores under x in the topmost frame, and yields, the value that x op e
\* yields: the concatenation for += over two STR, a NUM over two NUM; for
\* every other pair of operand types it raises an error and changes no frame
C15_CompoundAssignIsBinary ==
    [][Returning("compound") =>
          LET name == Top.node.children[1].content
              left == Top.left
              right == val
              op == OperatorOf(Top.node.type)
          IN  IF (op = "+" /\ left.type = "STR" /\ right.type = "STR")
                 \/ (left.type = "NUM" /\ right.type = "NUM")
              THEN /\ mode' = "ret"
                   /\ val' = Yield(op, left, right)
                   /\ frames'[self] = CallStackSet(frames[self], name, val')
              ELSE Failed' /\ frames' = frames]_vars

\* C16: the binary expression left op right, over operands of type NUM, STR
\* or VOID, yields the concatenation for + over two STR and a NUM for any
\* operator over two NUM; every other combination ends the execute call with
\* an error; no frame changes
C16_ArithmeticTypes ==
    [][(Returning("right") /\ Top.node.type \in ArithTypes) =>
          LET left == Top.left
              right == val
              op == OperatorOf(Top.node.type)
          IN  /\ left.type \in {"NUM", "STR", "VOID"}
              /\ right.type \in {"NUM", "STR", "VOID"}
              /\ frames' = frames
              /\ IF (op = "+" /\ left.type = "STR" /\ right.type = "STR")
                    \/ (left.type = "NUM" /\ right.type = "NUM")
                 THEN mode' = "ret" /\ val' = Yield(op, left, right) /\ outcome' = outcome
                 ELSE Failed' /\ outcome' \in {"concat", "arith"}]_vars

\* "a" + "b" has yielded STR "ab"
C16_Witness ==
    /\ script = "Expr"
    /\ mode = "ret"
    /\ Top.k = "assign"
    /\ Top.name = << "b" >>
    /\ val = ReturnValue("STR", << "a", "b" >>)

\* the binding of a one-letter name in the frame on top of the call stack
Bound(name) == TopFrame[<< name >>]

\* C17: while a returned value is pending inside a user-function call no
\* frame changes and no handle is invoked, until the call completes: it then
\* pops its frame, yields the pending value and unsets it; a call whose body
\* ended with no value pending yields VOID.  The value executeReturn leaves
\* pending is that of the return expression, VOID for a bare return.  When
\* execute returns from the program Returns, r and s are VOID, t is NUM 2, u
\* is NUM 0, and p was only ever given the 0 of v(0)
C17_ReturnEndsCall ==
    /\ [][(mode # "idle" /\ Depth > 0 /\ returnedValue[self] # Undefined) =>
             /\ calls' = calls
             /\ IF Returning("callBody")
                THEN /\ frames' = [frames EXCEPT ![self] = PopFrame(@)]
                     /\ mode' = "ret"
                     /\ val' = returnedValue[self]
                     /\ returnedValue'[self] = Undefined
                ELSE /\ frames' = frames
                     /\ returnedValue' = returnedValue]_vars
    /\ [][(Returning("callBody") /\ returnedValue[self] = Undefined) =>
             (val' = Void /\ returnedValue'[self] = Undefined)]_vars
    /\ [][(Returning("return") \/ (Entering({"RETURN"}) /\ Len(ctrl.children) = 0)) =>
             returnedValue'[self] = (IF Returning("return") THEN val ELSE Void)]_vars
    /\ [](\A j \in 1..Len(calls) : calls[j].args = << Zero >>)
    /\ []((Returning("execute") /\ script = "Returns" /\ returnedValue[self] = Undefined) =>
             /\ Bound("r") = Void
             /\ Bound("s") = Void
             /\ Bound("t") = ReturnValue("NUM", << "2" >>)
             /\ Bound("u") = Zero
             /\ calls # << >>)

\* execute returns from the program Returns: every call has completed, the
\* statements after the returns of q and v(1) were passed over, and p was
\* invoked by v(0)
C17_Witness ==
    /\ Returning("execute")
    /\ script = "Returns"
    /\ returnedValue[self] = Undefined
    /\ Bound("r") = Void
    /\ Bound("t") = ReturnValue("NUM", << "2" >>)
    /\ calls = << [name |-> << "p" >>, args |-> << Zero >>] >>

\* the tokens between the parentheses of the call or declaration parsed
Items == SubSeq(tokens, IF tokens[1].type = "FUNCTION" THEN 4 ELSE 3,
                CHOOSE i \in 1..Len(tokens) :
                    tokens[i + 1].type = "RBRACE" /\ \A j \in 1..i : tokens[j].type # "RBRACE")

\* items is a comma-separated list: a comma at every second place and only
\* there, none last
CommaSeparated(items) ==
    /\ Len(items) = 0 \/ Len(items) % 2 = 1
    /\ \A i \in 1..Len(items) : (items[i].type = "COMMA") = (i % 2 = 0)

\* the members of a comma-separated list, each made into m(token)
Members(items, m(_)) == [i \in 1..((Len(items) + 1) \div 2) |-> m(items[2 * i - 1])]

\* two members with no comma between them
MissingComma(items) ==
    \E i \in 1..(Len(items) - 1) : items[i].type # "COMMA" /\ items[i + 1].type # "COMMA"

AtomNode(token) == ParseNode(token.type, token.content, << >>)

Program(statements) == ParseNode("BLOCK", << >>, statements)

\* C18 as stated: parse, given f(e1, ..., en); with the arguments separated
\* by commas, returns the program of one CALL node named f whose children
\* are the n arguments in order, and given a call with two arguments that
\* have no comma between them it throws
C18_CallArguments ==
    (parsed.by # "none" /\ tokens \in CallInputs) =>
        /\ CommaSeparated(Items) =>
               /\ parsed.err = "none"
               /\ parsed.value =
                      Program(<< ParseNode("CALL", << "f" >>, Members(Items, AtomNode)) >>)
        /\ MissingComma(Items) => parsed.err # "none"

TokenText(token) == token.content

\* the statement x; and the statement (x);
StatementX == << IdToken("x"), Punct("SEMICOL") >>
StatementParenX == << Punct("LBRACE"), IdToken("x"), Punct("RBRACE"), Punct("SEMICOL") >>

\* C19 as stated: parse, given function f(p1, ..., pn) { body } with the
\* parameters separated by commas, returns the program of one FUNCTION node
\* whose content is f(p1,...,pn) and whose only child is the BLOCK of the
\* statements of the body, and given a declaration whose body is a single
\* statement with no braces around it it throws
C19_FunctionDeclaration ==
    (parsed.by = "Parser" /\ tokens \in FunctionInputs) =>
        \A body \in Bodies :
            (tokens = FunctionInput(Items, body)) =>
                IF body[1].type = "LCBRACE"
                THEN CommaSeparated(Items) =>
                        /\ parsed.err = "none"
                        /\ parsed.value =
                               Program(<< Function(<< "f" >>, Members(Items, TokenText),
                                                   Program(IF Len(body) = 2 THEN << >>
                                                           ELSE << Id(<< "x" >>) >>)) >>)
                ELSE parsed.err # "none"

NumberOne == ParseNode("NUM", << "1" >>, << >>)
NumberTwo == ParseNode("NUM", << "2" >>, << >>)

\* C20 as stated: parse, given a return statement with its semicolon,
\* returns the RETURN node (and the statement after it, when there is one)
\* and leaves no token unread; given return with no semicolon after it, it
\* throws; and given if (c) return 1; else return 2; it returns the program
\* of one IF node whose third child is the second return
C20_ReturnTakesItsSemicolon ==
    (parsed.by = "Parser" /\ tokens \in ReturnInputs) =>
        /\ \A value \in BOOLEAN, more \in BOOLEAN :
               /\ (tokens = ReturnInput(value, TRUE, more)) =>
                      /\ parsed.err = "none"
                      /\ parsed.pos = Len(tokens)
                      /\ parsed.value =
                             Program(<< ParseNode("RETURN", << >>,
                                                  IF value THEN << NumberOne >> ELSE << >>) >>
                                     \o (IF more THEN << Id(<< "x" >>) >> ELSE << >>))
               /\ (tokens = ReturnInput(value, FALSE, more)) => parsed.err # "none"
        /\ (tokens = IfReturnInput(TRUE, TRUE)) =>
               /\ parsed.err = "none"
               /\ parsed.value =
                      Program(<< ParseNode("IF", << >>,
                                           << Id(<< "c" >>),
                                              ParseNode("RETURN", << >>, << NumberOne >>),
                                              ParseNode("RETURN", << >>, << NumberTwo >>) >>) >>)

\* the level of a binary operator in the cascade, the loosest first
Level(op) ==
    CASE op = "ASSIGN" -> 1
      [] op = "OR" -> 2
      [] op = "AND" -> 3
      [] op = "EQ" -> 4
      [] op = "LT" -> 5
      [] op \in { "ADD", "SUB" } -> 6
      [] op = "MUL" -> 7

Operation(op, left, right) == ParseNode(op, << >>, << left, right >>)

\* C21 as stated: parse, given a op1 b op2 c; returns op1(a, op2(b, c)) when
\* op2 is of a tighter level than op1 or both are assignments, and
\* op2(op1(a, b), c) when op2 is of the level of op1 or of a looser one (an
\* assignment after another operator, which has no identifier on its left,
\* set aside)
C21_PrecedenceCascade ==
    (parsed.by = "Parser" /\ tokens \in BinaryInputs) =>
        LET op1 == tokens[2].type
            op2 == tokens[4].type
            a == Id(<< "a" >>)
            b == Id(<< "b" >>)
            c == Id(<< "c" >>)
        IN  (op2 # "ASSIGN" \/ op1 = "ASSIGN") =>
                /\ parsed.err = "none"
                /\ parsed.value =
                       Program(<< IF Level(op2) > Level(op1) \/ op2 = "ASSIGN"
                                  THEN Operation(op1, a, Operation(op2, b, c))
                                  ELSE Operation(op2, Operation(op1, a, b), c) >>)

\* whether two values are equal as C22 has it: of one type and, for NUM, of
\* equal numeric value, for the other types of equal text
Equal(left, right) ==
    /\ left.type = right.type
    /\ IF left.type = "NUM"
       THEN NumEq(Number(left.content), Number(right.content))
       ELSE left.content = right.content

\* C22: for operands of type NUM, STR or VOID, == and != raise no error and
\* change no frame; == yields NUM 1 when the operands are equal and NUM 0
\* otherwise, != yields the other of the two: values of different types are
\* unequal, two NUM are equal exactly when their numeric values are, two STR
\* exactly when their texts are
C22_EqualityIsTotal ==
    [][(Returning("right") /\ Top.node.type \in EqTypes) =>
          /\ Top.left.type \in {"NUM", "STR", "VOID"}
          /\ val.type \in {"NUM", "STR", "VOID"}
          /\ mode' = "ret"
          /\ outcome' = outcome
          /\ frames' = frames
          /\ val' = IF Equal(Top.left, val) = (Top.node.type = "EQ") THEN One ELSE Zero]_vars

\* 1 != "1" has yielded NUM 1
C22_Witness ==
    /\ script = "Eq"
    /\ mode = "ret"
    /\ Top.k = "assign"
    /\ kont[Len(kont) - 1].node = EqProgram("NEQ", Num(<< "1" >>), Str(<< "1" >>))
    /\ val = One

\* what evaluating the argument e comes to, x being the binding of x in the
\* frame of the caller and cs the handle invocations made so far
ArgOutcome(e, x, cs) ==
    CASE e.type = "ASSIGN" ->
            [value |-> ReturnValue("NUM", e.children[2].content),
             x |-> ReturnValue("NUM", e.children[2].content), calls |-> cs]
      [] e.type = "CALL" ->
            [value |-> Void, x |-> x,
             calls |-> Append(cs, [name |-> e.content,
                                   args |-> << ReturnValue("NUM", e.children[1].content) >>])]
      [] e.type = "ID" -> [value |-> x, x |-> x, calls |-> cs]

\* the arguments of the call of f in the program being executed
ArgsOfCall == kont[2].node.children[2].children[2].children

\* the frame of the caller binds x to value, or does not bind x when value is
\* undefined
CallerBinds(value) ==
    IF value = Undefined
    THEN ~DictHas(frames[self][1], << "x" >>)
    ELSE DictHas(frames[self][1], << "x" >>) /\ frames[self][1][<< "x" >>] = value

\* C23, for the call r = f(e1, .., en) of function f(a, b) { p(a, b); x = 9; }:
\* when n is not 2 the call raises the arity error at once, no argument
\* having been evaluated; while the arguments are evaluated no frame has
\* been pushed; when the body begins e1 then e2 have been evaluated in the
\* frame of the caller (their assignments to x are in it, their handle
\* invocations were made in that order), and one new frame binds a and b to
\* their values; when the call has returned that frame is popped, and x is
\* what the arguments made it, not the 9 of the body
C23_CallOrder ==
    /\ [][(Entering({"CALL"}) /\ ctrl.content = << "f" >> /\ Len(ctrl.children) # 2) =>
             /\ Failed'
             /\ outcome' = "arity"
             /\ frames' = frames
             /\ calls' = calls]_vars
    /\ [](((\E j \in 1..Len(kont) : kont[j].k = "callArgs") /\ mode # "idle") =>
             Len(frames[self]) = 1)
    /\ []((mode = "eval" /\ Len(kont) = 4 /\ Top.k = "callBody" /\ ctrl = CallBody) =>
             LET first == ArgOutcome(ArgsOfCall[1], Undefined, << >>)
                 second == ArgOutcome(ArgsOfCall[2], first.x, first.calls)
             IN  /\ Len(ArgsOfCall) = 2
                 /\ Len(frames[self]) = 2
                 /\ CallerBinds(second.x)
                 /\ calls = second.calls
                 /\ frames[self][2] = DictSet(DictSet(EmptyDict, << "a" >>, first.value),
                                              << "b" >>, second.value))
    /\ []((mode = "ret" /\ Len(kont) = 3 /\ Top.k = "assign") =>
             LET first == ArgOutcome(ArgsOfCall[1], Undefined, << >>)
                 second == ArgOutcome(ArgsOfCall[2], first.x, first.calls)
             IN  /\ Len(frames[self]) = 1
                 /\ CallerBinds(second.x)
                 /\ calls = Append(second.calls,
                                   [name |-> << "p" >>, args |-> << first.value, second.value >>])
                 /\ val = Void)

\* f(x = 1, x) has returned: p was given NUM 1 twice, and x is NUM 1 in the
\* frame of the caller
C23_Witness ==
    /\ script = "Call"
    /\ mode = "ret"
    /\ Len(kont) = 3
    /\ Top.k = "assign"
    /\ ArgsOfCall = << Assign(<< "x" >>, Num(<< "1" >>)), Id(<< "x" >>) >>
    /\ calls = << [name |-> << "p" >>, args |-> << One, One >>] >>
    /\ CallerBinds(One)

\* the value a read of name yields
ValueRead(name) == objects[stored[name]]

\* C24 as stated: the values a handle is given and the value a read yields
\* are copies, so a step that binds no name (a handle changing the type or
\* content of a value it was given is one) changes the value no name reads
\* as, and after y = x; a change to one is not seen through the other
C24_ValuesAreCopied ==
    [][stored' = stored => \A name \in DOMAIN stored : ValueRead(name)' = ValueRead(name)]_vars

\* C25 as stated, for the end of an execution that raises no error: when
\* execute has returned normally every user-function call has popped the
\* frame it pushed, and the call stack holds frame 0 only
C25_FrameBalance ==
    (mode = "idle" /\ outcome = "ok") => Len(frames[self]) = 1

\* C26 as stated: a call of read on a finite text comes to its end, by
\* returning or by throwing
C26_ReadTerminates ==
    (lexer.at = "read") ~> (lexer.at \in { "returned", "threw" })

\* the input from the position of the lexer on
Rest(this) == SubSeq(this.text, this.pos + 1, Len(this.text))

IsPrefix(key, rest) == Len(key) <= Len(rest) /\ SubSeq(rest, 1, Len(key)) = key

\* the longest key of the table that is a prefix of rest
LongestKey(rest) ==
    CHOOSE key \in DOMAIN specialTokens :
        /\ IsPrefix(key, rest)
        /\ \A other \in DOMAIN specialTokens : IsPrefix(other, rest) => Len(other) <= Len(key)

\* read is at a position where a key of the table starts
SpecialStarts(this) ==
    /\ this.at = "read"
    /\ \E key \in DOMAIN specialTokens : IsPrefix(key, Rest(this))

\* C27: every proper non-empty prefix of a key of the table of special
\* tokens is a key; and where a key starts, the lexer takes the longest key
\* that is a prefix of the remaining input: for a comment start it emits no
\* token and goes on, for a key mapped to ERR (a lone & or |) it throws and
\* emits no token, for any other it emits the token of that key and moves
\* past it
C27_MaximalMunch ==
    /\ [](\A key \in DOMAIN specialTokens : \A n \in 1..(Len(key) - 1) :
             SubSeq(key, 1, n) \in DOMAIN specialTokens)
    /\ [][SpecialStarts(lexer) =>
             LET key == LongestKey(Rest(lexer)) IN
             IF key \in { LineCommentStart, MultilineCommentStart }
             THEN lexer'.tokens = lexer.tokens /\ lexer'.at \in { "read", "comment" }
             ELSE IF specialTokens[key] = "ERR"
             THEN lexer'.tokens = lexer.tokens /\ lexer'.at = "threw"
             ELSE lexer' = [lexer EXCEPT !.tokens = Append(@, Token(specialTokens[key], << >>)),
                                         !.pos = @ + Len(key)]]_vars

\* === was read as EQ then ASSIGN
C27_Witness ==
    /\ lexer.at = "returned"
    /\ lexer.text = << "=", "=", "=" >>
    /\ lexer.tokens = << Token("EQ", << >>), Token("ASSIGN", << >>) >>

\* the text with each comment replaced by one space, from character i on,
\* out being what came of the characters before i.  in is "code", the quote
\* that opened a string literal, "line" or "block"; closed tells whether no
\* block comment is left open at the end
RECURSIVE ElideFrom(_, _, _, _)
ElideFrom(text, i, in, out) ==
    IF i > Len(text) THEN [text |-> out, closed |-> in # "block"]
    ELSE LET char == text[i]
             two == IF i < Len(text) THEN SubSeq(text, i, i + 1) ELSE << char >>
         IN  CASE in = "code" ->
                    IF char \in { "'", "\"" } THEN ElideFrom(text, i + 1, char, Append(out, char))
                    ELSE IF two = LineCommentStart
                    THEN ElideFrom(text, i + 2, "line", Append(out, " "))
                    ELSE IF two = MultilineCommentStart
                    THEN ElideFrom(text, i + 2, "block", Append(out, " "))
                    ELSE ElideFrom(text, i + 1, "code", Append(out, char))
               [] in = "line" ->
                    IF char = "\n" THEN ElideFrom(text, i + 1, "code", Append(out, char))
                    ELSE ElideFrom(text, i + 1, "line", out)
               [] in = "block" ->
                    IF two = << "*", "/" >> THEN ElideFrom(text, i + 2, "code", out)
                    ELSE ElideFrom(text, i + 1, "block", out)
               [] OTHER ->
                    IF char = "\\" THEN ElideFrom(text, i + 2, in, out \o two)
                    ELSE IF char = in THEN ElideFrom(text, i + 1, "code", Append(out, char))
                    ELSE ElideFrom(text, i + 1, in, Append(out, char))

Elide(text) == ElideFrom(text, 1, "code", << >>)

\* read run to its end on a text that has no comment
RECURSIVE ReadAll(_)
ReadAll(this) == IF this.at = "read" THEN ReadAll(readWhile(this)) ELSE this

\* what a call of read that came to its end yields: the tokens, or an error
Lexed(this) == IF this.at = "returned" THEN this.tokens ELSE << this.at >>

Slash == << "/" >>
Quote == << "\"" >>

TypesOf(type) == IF type.isArray THEN { type.types[i] : i \in 1..Len(type.types) } ELSE { type.type }

\* C29 as stated: accept(type) returns, for a single type and for an array
\* of types; it returns true exactly when the type of the current token is
\* the type or one of the types given, and it leaves the position where it
\* was
C29_AcceptCompares ==
    parsed.by = "accept" =>
        /\ parsed.err = "none"
        /\ parsed.value.returned =
               (cur([Parser(tokens) EXCEPT !.pos = parsed.value.from]).type
                    \in TypesOf(parsed.value.type))
        /\ parsed.pos = parsed.value.from

\* C30 as stated: when parse returns a tree it has consumed every token
C30_ParseConsumesAll ==
    (parsed.by = "Parser" /\ parsed.err = "none") => parsed.pos = Len(tokens)

====
